---- MODULE Spec2Model ----
(***************************************************************************)
(* A model of the map generation pipeline of dnd-map-generator:            *)
(* the seeded random number generator, the heightmap synthesizer, erosion, *)
(* climate, the biome classifier, the river tracer and the orchestrating   *)
(* generateMap.                                                            *)
(*                                                                         *)
(* Numbers.  The program computes on IEEE doubles and Float32Array cells.  *)
(* The model is in fixed point: a scalar field value v in [0,1] is the     *)
(* integer v * Scale, a sub-cell position p is the integer p * Scale, and  *)
(* a 32-bit word is the pair <<high 16 bits, low 16 bits>>, so that every  *)
(* intermediate value fits in TLC's integers.                           *)
(*                                                                         *)
(* Style.  A `const v = e` of the program whose value is used more than    *)
(* once is written The({ body : v \in {e} }): e is evaluated once, where   *)
(* the program evaluates it, and body reads the value.                     *)
(***************************************************************************)
EXTENDS Integers, Sequences, FiniteSets, TLC

\* The element of a one-element set.
The(S) == CHOOSE v \in S : TRUE

\* A for loop: the value of acc after the loop body has run for i = lo, ..., hi
\* in turn; acc ++ i is the value the body leaves when it starts from acc.
RECURSIVE Fold(_, _, _, _)
Fold(_ ++ _, lo, hi, acc) ==
  IF lo > hi THEN acc
  ELSE IF lo = hi THEN acc ++ lo
  ELSE The({ Fold(++, ((lo + hi) \div 2) + 1, hi, a) : a \in {Fold(++, lo, (lo + hi) \div 2, acc)} })

\* Fixed-point denominator of field values and positions.
Scale == 10 * 10 * 10

Min2(a, b) == IF a < b THEN a ELSE b
Max2(a, b) == IF a > b THEN a ELSE b

\* Math.floor(n / d) for d > 0 and any integer n.
FloorDiv(n, d) == IF n >= 0 THEN n \div d ELSE -(((-n) + d - 1) \div d)

\* utils/math: clamp(value, min, max)
clamp(value, lo, hi) == Min2(Max2(value, lo), hi)

\* utils/math: coordToIndex(x, y, width); cells are numbered from 0.
coordToIndex(x, y, width) == y * width + x

(***************************************************************************)
(* 32-bit integer arithmetic of SeededRandom, on <<hi, lo>> pairs.         *)
(***************************************************************************)
Half == 256 * 256

\* 2^k for k in 0..16
Pow2(k) ==
  <<1, 2, 4, 8, 16, 32, 64, 128, 256, 512, 1024, 2048, 4096, 8192, 16384, 32768,
    65536>>[k + 1]

\* a ^ b for a, b < 16, as a table.
XorNibble ==
  [a \in 0..15, b \in 0..15 |->
     (IF (a \div 8) % 2 = (b \div 8) % 2 THEN 0 ELSE 8)
   + (IF (a \div 4) % 2 = (b \div 4) % 2 THEN 0 ELSE 4)
   + (IF (a \div 2) % 2 = (b \div 2) % 2 THEN 0 ELSE 2)
   + (IF a % 2 = b % 2 THEN 0 ELSE 1)]

\* a ^ b for a, b < 2^16
Xor16(a, b) ==
    (XorNibble[a \div 4096, b \div 4096] * 4096)
  + (XorNibble[(a \div 256) % 16, (b \div 256) % 16] * 256)
  + (XorNibble[(a \div 16) % 16, (b \div 16) % 16] * 16)
  + XorNibble[a % 16, b % 16]

\* a ^ b
Xor32(A, B) == <<Xor16(A[1], B[1]), Xor16(A[2], B[2])>>

\* a << k, kept to 32 bits
Shl32(A, k) ==
  IF k >= 16 THEN <<(A[2] * Pow2(k - 16)) % Half, 0>>
  ELSE <<(((A[1] * Pow2(k)) % Half) + (A[2] \div Pow2(16 - k))) % Half,
         (A[2] * Pow2(k)) % Half>>

\* a >>> k
Shr32(A, k) ==
  IF k >= 16 THEN <<0, A[1] \div Pow2(k - 16)>>
  ELSE <<A[1] \div Pow2(k),
         (A[2] \div Pow2(k)) + ((A[1] % Pow2(k)) * Pow2(16 - k))>>

\* (a * b) mod 2^16 for a, b < 2^16, without leaving 31 bits
MulLo16(a, b) ==
  ((a * (b % 256)) + (((a * (b \div 256)) % 256) * 256)) % Half

\* (a * b) div 2^16 for a, b < 2^16
MulHi16(a, b) ==
  (((a * (b % 256)) + (((a * (b \div 256)) % 256) * 256)) \div Half)
  + ((a * (b \div 256)) \div 256)

\* Math.imul(a, b): the low 32 bits of the product
Imul32(A, B) ==
  <<(MulHi16(A[2], B[2]) + MulLo16(A[1], B[2]) + MulLo16(A[2], B[1])) % Half,
    MulLo16(A[2], B[2])>>

\* Variant: a + b, the carry out of the high half kept.
AddWide(A, B) == <<A[1] + B[1] + ((A[2] + B[2]) \div Half), (A[2] + B[2]) % Half>>

\* (a + b) >>> 0
Add32(A, B) ==
  <<(A[1] + B[1] + ((A[2] + B[2]) \div Half)) % Half, (A[2] + B[2]) % Half>>

(***************************************************************************)
(* SeededRandom (utils/random.ts).  A seed string is the sequence of its   *)
(* character codes.                                                        *)
(***************************************************************************)
\* h ^= Math.imul(h ^ (other >>> 15), k)
HashMix(h, other, k) ==
  The({ Xor32(v, Imul32(Xor32(v, Shr32(other, 15)), k)) : v \in {h} })

\* new SeededRandom(seed): the state [h1 >>> 0, h2 >>> 0]
SeededRandom(seed) ==
  The({ The({ The({ The({ The({ <<h1b, Xor32(h2a, Shr32(h1b, 16))>>
                : h1b \in {Xor32(h1a, Shr32(h2a, 16))} })
              : h2a \in {HashMix(h[2], h1a, <<51958, 18857>>)} })
            : h1a \in {HashMix(h[1], h[2], <<29530, 11671>>)} })
          : h \in {Fold(LAMBDA g, i :
                           <<Imul32(Xor32(g[1], <<0, seed[i]>>), <<34283, 51831>>),
                             Imul32(Xor32(g[2], <<0, seed[i]>>), <<49842, 44605>>)>>,
                         1, Len(seed), h0)} })
        : h0 \in {<< <<57005, 48879>>, <<16838, 52823>> >>} })

\* The suffixes the stages append to the seed: '_erosion', '_climate', ...
SeedTag ==
  [erosion |-> <<95, 101, 114, 111, 115, 105, 111, 110>>,
   climate |-> <<95, 99, 108, 105, 109, 97, 116, 101>>,
   biomes |-> <<95, 98, 105, 111, 109, 101, 115>>,
   rivers |-> <<95, 114, 105, 118, 101, 114, 115>>,
   settlements |-> <<95, 115, 101, 116, 116, 108, 101, 109, 101, 110, 116, 115>>,
   names |-> <<95, 110, 97, 109, 101, 115>>]

\* s1 ^= s1 << 23; s1 ^= s1 >>> 17
RngScramble(s1) ==
  The({ Xor32(a, Shr32(a, 17)) : a \in {The({ Xor32(v, Shl32(v, 23)) : v \in {s1} })} })

\* The state after one next().
RngStep(st) ==
  The({ <<s[2], Xor32(Xor32(RngScramble(s[1]), s[2]), Shr32(s[2], 26))>> : s \in {st} })

\* Math.floor(v / 2^32 * n) for a returned numerator v and 0 < n < 2^31.
ScaleOut(v, n) ==
  (v[1] * (n \div Half)) + MulHi16(v[1], n % Half)
  + ((MulLo16(v[1], n % Half) + (v[2] * (n \div Half)) + MulHi16(v[2], n % Half)) \div Half)

\* next(): <<v, state after the call>>, the value returned being v / 4294967296
\* with v the 32-bit word (state[0] + state[1]) >>> 0.
RngNext(st) == The({ <<Add32(st1[1], st1[2]), st1>> : st1 \in {RngStep(st)} })

\* int(min, max) = Math.floor(range(min, max + 1)), range(min, max) being
\* min + next() * (max - min): <<integer, state after the call>>
RngInt(st, min, max) ==
  The({ <<min + ScaleOut(r[1], (max + 1) - min), r[2]>> : r \in {RngNext(st)} })

\* shuffle(array): <<array, state>>; the position p runs from the last down
\* to the second, and is swapped with one of the positions 1..p.
Shuffle(arr, st) ==
  Fold(LAMBDA a, k :
         The({ The({ <<[a[1] EXCEPT ![p[1]] = a[1][p[2]], ![p[2]] = a[1][p[1]]], r[2]>>
                     : p \in {<<Len(arr) + 2 - k, ScaleOut(r[1], Len(arr) + 2 - k) + 1>>} })
               : r \in {RngNext(a[2])} }),
       2, Len(arr), <<arr, st>>)

\* uuid(): one draw per x or y of 'xxxxxxxx-xxxx-4xxx-yxxx-xxxxxxxxxxxx';
\* <<the sequence of the 31 hexadecimal digits drawn, state>>.
UuidLen == 31
UuidYPos == 16

uuid(st) ==
  Fold(LAMBDA a, k :
         The({ <<Append(a[1], IF k = UuidYPos THEN (ScaleOut(r[1], 16) % 4) + 8
                              ELSE ScaleOut(r[1], 16)), r[2]>>
               : r \in {RngNext(a[2])} }),
       1, UuidLen, <<<<>>, st>>)
(***************************************************************************)
(* Hydrology (generation/hydrology/rivers.ts).  A heightmap is a function  *)
(* from cell index to elevation * Scale; a segment is [x, y, flow] with    *)
(* x, y the sample position * Scale and flow * Scale.                      *)
(***************************************************************************)
CellOf(p) == FloorDiv(p, Scale)

SegCell(seg, width) == coordToIndex(CellOf(seg.x), CellOf(seg.y), width)

Neighbors8 ==
  << <<-1, 0>>, <<1, 0>>, <<0, -1>>, <<0, 1>>,
     <<-1, -1>>, <<1, -1>>, <<-1, 1>>, <<1, 1>> >>

Neighbors4 == << <<-1, 0>>, <<1, 0>>, <<0, -1>>, <<0, 1>> >>

\* One pass of the loop of findSteepestDescent over neighbour (nx, ny).
DescentStep(nx, ny, width, height, heightmap, best) ==
  IF nx < 0 \/ nx >= width \/ ny < 0 \/ ny >= height THEN best
  ELSE IF heightmap[coordToIndex(nx, ny, width)] < best.lowestHeight
       THEN [lowestHeight |-> heightmap[coordToIndex(nx, ny, width)],
             nextX |-> nx, nextY |-> ny]
       ELSE best

\* findSteepestDescent: [nextX, nextY] and the generator state after the shuffle.
findSteepestDescent(x, y, width, height, heightmap, st) ==
  The({ The({ [nextX |-> best.nextX, nextY |-> best.nextY, rng |-> sh[2]]
              : best \in {Fold(LAMBDA b, i :
                                 DescentStep(x + sh[1][i][1], y + sh[1][i][2], width,
                                             height, heightmap, b),
                               1, Len(Neighbors8),
                               [lowestHeight |-> heightmap[coordToIndex(x, y, width)],
                                nextX |-> x, nextY |-> y])} })
        : sh \in {Shuffle(Neighbors8, st)} })

maxDepth == 20

\* escapeLocalMinimum's queue is first-in first-out and an entry's depth is its
\* parent's plus one, so the entries leave the queue level by level, each level
\* in the order it was pushed.  `level` is the sequence of entries of one depth,
\* `visited` the cells taken from the queue at smaller depths.

\* The entries pushed while the level is processed: for each entry taken from
\* the queue with its cell not yet visited, in order, its in-bounds 4-neighbours
\* in the order of the neighbors array.
EscapePush(level, visited, width, height) ==
  The({ SelectSeq([n \in 1..(Len(Neighbors4) * Len(fresh)) |->
                     [x |-> level[fresh[((n - 1) \div Len(Neighbors4)) + 1]].x
                            + Neighbors4[((n - 1) % Len(Neighbors4)) + 1][1],
                      y |-> level[fresh[((n - 1) \div Len(Neighbors4)) + 1]].y
                            + Neighbors4[((n - 1) % Len(Neighbors4)) + 1][2]]],
                  LAMBDA c : c.x >= 0 /\ c.x < width /\ c.y >= 0 /\ c.y < height)
        : fresh \in {SelectSeq([i \in 1..Len(level) |-> i],
                               LAMBDA i :
                                 /\ coordToIndex(level[i].x, level[i].y, width) \notin visited
                                 /\ \A j \in 1..(i - 1) : level[j] # level[i])} })

\* The while loop of escapeLocalMinimum, one level of the queue at a time; s is
\* [done, found, x, y, level, visited] and hits are the entries of the level that
\* end the search: not visited, and lower than the start or below sea level.
\* Entries deeper than maxDepth are skipped, so the search ends after that level.
EscapeLoop(s, startHeight, width, height, heightmap, seaLevel) ==
  IF s.done THEN s
  ELSE IF Len(s.level) = 0 THEN [s EXCEPT !.done = TRUE]
  ELSE The({
         IF hits # {}
         THEN The({ [s EXCEPT !.done = TRUE, !.found = TRUE,
                              !.x = s.level[first].x, !.y = s.level[first].y]
                    : first \in {i \in hits : \A j \in hits : i <= j} })
         ELSE [s EXCEPT !.level = EscapePush(s.level, s.visited, width, height),
                        !.visited = s.visited
                                    \cup {coordToIndex(s.level[i].x, s.level[i].y, width) :
                                            i \in 1..Len(s.level)}]
         : hits \in {{i \in 1..Len(s.level) :
                        /\ coordToIndex(s.level[i].x, s.level[i].y, width) \notin s.visited
                        /\ \/ heightmap[coordToIndex(s.level[i].x, s.level[i].y, width)]
                              < startHeight
                           \/ heightmap[coordToIndex(s.level[i].x, s.level[i].y, width)]
                              < seaLevel}} })

\* Variant: the search finds nothing.
escapeNowhere(x, y, width, height, heightmap, seaLevel) ==
  [done |-> TRUE, found |-> FALSE, x |-> 0, y |-> 0, level |-> <<>>, visited |-> {}]

\* escapeLocalMinimum: found = FALSE stands for null.
escapeLocalMinimum(x, y, width, height, heightmap, seaLevel) ==
  Fold(LAMBDA s, depth :
         EscapeLoop(s, heightmap[coordToIndex(x, y, width)], width, height, heightmap,
                    seaLevel),
       0, maxDepth,
       [done |-> FALSE, found |-> FALSE, x |-> 0, y |-> 0,
        level |-> <<[x |-> x, y |-> y]>>, visited |-> {}])

\* (rng.next() - 0.5) * 0.3, times Scale
Jitter(v) == ScaleOut(v, (3 * Scale) \div 10) - ((15 * Scale) \div 100)

\* Variant: the ocean test never succeeds.
ReachedOceanNever(elevation, seaLevel) == FALSE

\* Variant: the claimed-cell test never succeeds.
CollidesNever(idx, lastIdx, usedCells) == FALSE

\* elevation < seaLevel: the trace has reached the ocean.
ReachedOcean(elevation, seaLevel) == elevation < seaLevel

\* usedCells.has(idx) && idx !== lastIdx
Collides(idx, lastIdx, usedCells) == idx \in usedCells /\ idx # lastIdx

\* The state of traceRiver at the head of its for loop: the position, the loop
\* counter, lastIdx, the segments pushed and the generator; stop is "" while the
\* loop runs and afterwards names the exit taken.
TraceStart(startX, startY, st) ==
  [x |-> startX * Scale, y |-> startY * Scale, step |-> 0, lastIdx |-> -1,
   segments |-> <<>>, rng |-> st, stop |-> ""]

\* The end of an iteration of traceRiver that pushed its sample: d is the result
\* of findSteepestDescent.
TraceMove(t, intX, intY, idx, d, width, height, heightmap, seaLevel) ==
  IF d.nextX = intX /\ d.nextY = intY
  THEN The({ IF escaped.found
             THEN [x |-> escaped.x * Scale, y |-> escaped.y * Scale,
                   step |-> t.step + 1, lastIdx |-> idx,
                   segments |-> t.segments, rng |-> d.rng, stop |-> ""]
             ELSE [t EXCEPT !.lastIdx = idx, !.rng = d.rng, !.stop = "stuck"]
             : escaped \in {escapeLocalMinimum(intX, intY, width, height,
                                               heightmap, seaLevel)} })
  ELSE The({ The({ [x |-> d.nextX * Scale + Jitter(r1[1]),
                    y |-> d.nextY * Scale + Jitter(r2[1]),
                    step |-> t.step + 1, lastIdx |-> idx,
                    segments |-> t.segments, rng |-> r2[2], stop |-> ""]
                   : r2 \in {RngNext(r1[2])} })
             : r1 \in {RngNext(d.rng)} })

\* The body of the loop of traceRiver at cell (intX, intY).
TraceBody(t, intX, intY, idx, width, height, heightmap, seaLevel, usedCells) ==
  IF intX < 1 \/ intX >= width - 1 \/ intY < 1 \/ intY >= height - 1
  THEN [t EXCEPT !.stop = "border"]
  ELSE IF ReachedOcean(heightmap[idx], seaLevel)
  THEN [t EXCEPT !.segments = Append(t.segments, [x |-> t.x, y |-> t.y, flow |-> Scale]),
                 !.stop = "ocean"]
  ELSE IF Collides(idx, t.lastIdx, usedCells)
  THEN [t EXCEPT !.stop = "collision"]
  ELSE The({ TraceMove(pushed, intX, intY, idx,
                       findSteepestDescent(intX, intY, width, height, heightmap, t.rng),
                       width, height, heightmap, seaLevel)
             : pushed \in {[t EXCEPT !.segments =
                              Append(t.segments, [x |-> t.x, y |-> t.y, flow |-> Scale])]} })

\* One evaluation of the loop condition of traceRiver and, when it holds, one
\* iteration of the body.
traceRiver(t, width, height, heightmap, seaLevel, usedCells) ==
  IF t.step >= width + height
  THEN [t EXCEPT !.stop = "budget"]
  ELSE TraceBody(t, CellOf(t.x), CellOf(t.y),
                 coordToIndex(CellOf(t.x), CellOf(t.y), width),
                 width, height, heightmap, seaLevel, usedCells)

\* The grid points findRiverSources samples, in scan order.
RECURSIVE SamplePoints(_, _, _, _, _)
SamplePoints(x, y, sampleStep, width, height) ==
  IF y >= height - sampleStep THEN <<>>
  ELSE IF x >= width - sampleStep
       THEN SamplePoints(sampleStep, y + sampleStep, sampleStep, width, height)
       ELSE <<[x |-> x, y |-> y]>>
            \o SamplePoints(x + sampleStep, y, sampleStep, width, height)

\* candidates.sort((a, b) => b.score - a.score): descending, stable.
RECURSIVE InsertByScore(_, _, _)
InsertByScore(sorted, i, c) ==
  IF i > Len(sorted) THEN Append(sorted, c)
  ELSE IF sorted[i].score < c.score
       THEN SubSeq(sorted, 1, i - 1) \o <<c>> \o SubSeq(sorted, i, Len(sorted))
       ELSE InsertByScore(sorted, i + 1, c)

\* One pass of the candidate loop of findRiverSources over the sample point pt;
\* a = <<candidates, generator state>>.  score is kept times 2 * Scale:
\* elevation * 0.5 + moist * 0.5 + rng.next() * 0.2.
SourceScan(a, pt, width, heightmap, moisture, seaLevel) ==
  The({ IF heightmap[idx] > seaLevel + (3 * Scale) \div 10
           /\ heightmap[idx] < (9 * Scale) \div 10
        THEN The({ <<Append(a[1], [x |-> pt.x, y |-> pt.y,
                                   score |-> heightmap[idx] + moisture[idx]
                                             + ScaleOut(r[1], (4 * Scale) \div 10)]),
                     r[2]>>
                   : r \in {RngNext(a[2])} })
        ELSE a
        : idx \in {coordToIndex(pt.x, pt.y, width)} })

\* findRiverSources: <<the top `count` candidates, generator state>>
findRiverSources(width, height, heightmap, moisture, seaLevel, st, count) ==
  The({ The({ <<SubSeq(sorted, 1, Min2(count, Len(sorted))), scan[2]>>
              : sorted \in {Fold(LAMBDA acc, i : InsertByScore(acc, 1, scan[1][i]),
                                 1, Len(scan[1]), <<>>)} })
        : scan \in {The({ Fold(LAMBDA a, i : SourceScan(a, pts[i], width, heightmap,
                                                        moisture, seaLevel),
                               1, Len(pts), <<<<>>, st>>)
                          : pts \in {SamplePoints(Max2(4, width \div 50),
                                                  Max2(4, width \div 50),
                                                  Max2(4, width \div 50), width, height)} })} })

\* calculateRiverFlow: flow = 0.3 + (i / length) * 0.7 for the i-th sample from 0.
calculateRiverFlow(river) ==
  [river EXCEPT !.segments =
     [i \in 1..Len(river.segments) |->
        [river.segments[i] EXCEPT
           !.flow = (3 * Scale) \div 10
                    + (((i - 1) * 7 * Scale) \div 10) \div Len(river.segments)]]]

\* The cells of a river: floor of each sample position.
RiverCells(river, width) ==
  {SegCell(river.segments[i], width) : i \in 1..Len(river.segments)}

(***************************************************************************)
(* Bounds of the model and the inputs it is run on.                        *)
(***************************************************************************)
GridW == 13
GridH == 13
NumSeeds == 3
MaxRiverCount == 2
MaxMinLength == 4

\* Seed strings "a", "b", ...
Seeds == {<<96 + i>> : i \in 1..NumSeeds}

Abs(n) == IF n < 0 THEN -n ELSE n

Cheb(x, y, cx, cy) == Max2(Abs(x - cx), Abs(y - cy))

\* Elevation fields the tracer is run on, by name.
TerrainAt(kind, x, y, width, height) ==
  CASE kind = "valley" ->
         clamp((IF x <= 8 THEN 800 - 15 * x ELSE 680 - 120 * (x - 8))
               + 20 * Abs(y - 4), 0, Scale)
    [] kind = "basin" ->
         clamp(300 + 200 * Abs(x - 6) + 20 * Abs(y - 4), 0, Scale)
    [] kind = "funnel" ->
         IF Cheb(x, y, 6, 6) = 0 THEN 300
         ELSE clamp(400 + 150 * Cheb(x, y, 6, 6), 0, Scale)
    [] kind = "plateau" -> 700
    [] kind = "pit" ->
         IF Cheb(x, y, 4, 4) = 0 THEN 700
         ELSE IF Cheb(x, y, 4, 4) = 1 THEN 720
         ELSE clamp(650 - 80 * (Cheb(x, y, 4, 4) - 2), 0, Scale)
    [] kind = "north" -> clamp(600 + 30 * y, 0, Scale)
    [] kind = "snake" ->
         IF y = 4 /\ x >= 4 /\ x <= width - 2 THEN 890 - 8 * (x - 4)
         ELSE IF y = 5 /\ x = width - 2 THEN 890 - 8 * (width - 5)
         ELSE IF y = 6 /\ x >= 1 /\ x <= width - 2
              THEN 890 - 8 * ((width - 4) + (width - 2 - x))
         ELSE Scale
    [] kind = "far" ->
         IF x = width - 1 /\ y = height - 1 THEN 500
         ELSE clamp(600 + 20 * Cheb(x, y, 2, 1), 0, Scale)
    [] kind = "near" ->
         IF x = width - 1 /\ y = (maxDepth + 4) - width THEN 500
         ELSE clamp(600 + 20 * Cheb(x, y, 2, 1), 0, Scale)

Terrain(kind, width, height) ==
  [idx \in 0..(width * height - 1) |->
     TerrainAt(kind, idx % width, idx \div width, width, height)]

\* Moisture fields: uniform ("even"), or rising with x ("east").
MoistureField(kind, width, height) ==
  [idx \in 0..(width * height - 1) |->
     IF kind = "even" THEN Scale \div 2
     ELSE clamp(40 * (idx % width), 0, Scale)]

RiverOptions ==
  [width : {GridW}, height : {GridH}, seed : Seeds,
   terrain : {"valley", "basin", "funnel", "plateau", "pit", "north", "snake", "far", "near"},
   wet : {"even", "east"}, seaLevel : {(35 * Scale) \div 100},
   riverCount : 1..MaxRiverCount, minRiverLength : {2, MaxMinLength}]

(***************************************************************************)
(* Noise.  createNoise2D of the simplex-noise package is outside the       *)
(* sources: it draws from the generator it is given to build a table, and  *)
(* the function it returns maps a position to a value in [-1, 1] that      *)
(* depends on the table and the position only.  The model keeps exactly    *)
(* that: NoiseDraws draws make the table, and noise2D reads the slot the   *)
(* position selects.  Positions are times Scale.                           *)
(***************************************************************************)
NoiseDraws == 4

\* createNoise2D(() => rng.next()): <<noise function, generator state>>
createNoise2D(st) ==
  Fold(LAMBDA a, k :
         The({ <<Append(a[1], ScaleOut(r[1], 2 * Scale + 1) - Scale), r[2]>>
               : r \in {RngNext(a[2])} }),
       1, NoiseDraws, <<<<>>, st>>)

\* noise(x, y), times Scale
noise2D(noise, x, y) == noise[(((x * 7) + (y * 13)) % Len(noise)) + 1]

(***************************************************************************)
(* Biomes (generation/climate/biomes.ts).                                  *)
(***************************************************************************)
BIOME_IDS ==
  [ocean |-> 0, beach |-> 1, grassland |-> 2, forest |-> 3, rainforest |-> 4,
   desert |-> 5, tundra |-> 6, snow |-> 7, mountain |-> 8, swamp |-> 9, lake |-> 10]

\* Variant: a cell exactly at sea level counts as ocean.
AtOrBelowSea(elevation, seaLevel) == elevation <= seaLevel

\* if (elevation < seaLevel)
BelowSea(elevation, seaLevel) == elevation < seaLevel

\* Variant: every wet temperate or hot cell is a swamp, whatever its elevation.
classifyWetAsSwamp(elevation, temperature, moisture, seaLevel) ==
  IF temperature < (2 * Scale) \div 10
  THEN IF moisture > (5 * Scale) \div 10 THEN BIOME_IDS.snow ELSE BIOME_IDS.tundra
  ELSE IF temperature < (4 * Scale) \div 10
  THEN IF moisture > (6 * Scale) \div 10 THEN BIOME_IDS.forest
       ELSE IF moisture > (3 * Scale) \div 10 THEN BIOME_IDS.grassland
       ELSE BIOME_IDS.tundra
  ELSE IF moisture > (7 * Scale) \div 10 THEN BIOME_IDS.swamp
       ELSE IF moisture > (4 * Scale) \div 10 THEN BIOME_IDS.forest
       ELSE IF moisture > (2 * Scale) \div 10 THEN BIOME_IDS.grassland
       ELSE BIOME_IDS.desert

\* The temperature and moisture rules of classifyBiome, for a cell that is not
\* ocean, beach, snow-capped or mountain.
classifyLand(elevation, temperature, moisture, seaLevel) ==
  IF temperature < (2 * Scale) \div 10
  THEN IF moisture > (5 * Scale) \div 10 THEN BIOME_IDS.snow ELSE BIOME_IDS.tundra
  ELSE IF temperature < (4 * Scale) \div 10
  THEN IF moisture > (6 * Scale) \div 10 THEN BIOME_IDS.forest
       ELSE IF moisture > (3 * Scale) \div 10 THEN BIOME_IDS.grassland
       ELSE BIOME_IDS.tundra
  ELSE IF temperature < (7 * Scale) \div 10
  THEN IF moisture > (8 * Scale) \div 10
       THEN IF elevation < seaLevel + Scale \div 10 THEN BIOME_IDS.swamp
            ELSE BIOME_IDS.forest
       ELSE IF moisture > (4 * Scale) \div 10 THEN BIOME_IDS.forest
       ELSE IF moisture > (2 * Scale) \div 10 THEN BIOME_IDS.grassland
       ELSE BIOME_IDS.desert
  ELSE IF moisture > (7 * Scale) \div 10
       THEN IF elevation < seaLevel + Scale \div 10 THEN BIOME_IDS.swamp
            ELSE BIOME_IDS.rainforest
       ELSE IF moisture > (4 * Scale) \div 10 THEN BIOME_IDS.forest
       ELSE IF moisture > (2 * Scale) \div 10 THEN BIOME_IDS.grassland
       ELSE BIOME_IDS.desert

\* Variant: water is ocean on the rim of the value range only, a lake elsewhere.
classifyWithLakes(elevation, temperature, moisture, seaLevel, beachLevel, mountainLevel, snowLevel) ==
  IF BelowSea(elevation, seaLevel)
  THEN IF elevation = 0 THEN BIOME_IDS.ocean ELSE BIOME_IDS.lake
  ELSE IF elevation < beachLevel THEN BIOME_IDS.beach
  ELSE IF elevation > mountainLevel THEN BIOME_IDS.mountain
  ELSE classifyLand(elevation, temperature, moisture, seaLevel)

\* Variant: the temperature and moisture bands are applied to every cell that
\* is not ocean or beach, whatever its elevation.
classifyByClimate(elevation, temperature, moisture, seaLevel, beachLevel, mountainLevel, snowLevel) ==
  IF BelowSea(elevation, seaLevel) THEN BIOME_IDS.ocean
  ELSE IF elevation < beachLevel THEN BIOME_IDS.beach
  ELSE classifyLand(elevation, temperature, moisture, seaLevel)

classifyBiome(elevation, temperature, moisture, seaLevel, beachLevel, mountainLevel, snowLevel) ==
  IF BelowSea(elevation, seaLevel) THEN BIOME_IDS.ocean
  ELSE IF elevation < beachLevel THEN BIOME_IDS.beach
  ELSE IF elevation > snowLevel
          \/ (elevation > mountainLevel /\ temperature < (2 * Scale) \div 10)
  THEN BIOME_IDS.snow
  ELSE IF elevation > mountainLevel THEN BIOME_IDS.mountain
  ELSE classifyLand(elevation, temperature, moisture, seaLevel)

\* noise(...) * 0.08
Jitter08(n) == FloorDiv(n * 8, 100)

\* What the loop body of generateBiomes hands to classifyBiome for cell (x, y):
\* the elevation, the jittered and clamped temp and moist, and beachThreshold.
BiomeInputs(b, x, y) ==
  The({ [elevation |-> b.heightmap[idx],
         temp |-> Max2(0, Min2(Scale, b.temperature[idx]
                    + Jitter08(noise2D(b.noise, (x * Scale) \div 60, (y * Scale) \div 60)))),
         moist |-> Max2(0, Min2(Scale, b.moisture[idx]
                     + Jitter08(noise2D(b.noise, (x * Scale) \div 60 + 100 * Scale,
                                        (y * Scale) \div 60 + 100 * Scale)))),
         beachThreshold |-> (b.opts.seaLevel + (3 * Scale) \div 100)
                            - (IF noise2D(b.noise, (x * Scale) \div 20, (y * Scale) \div 20)
                                  > (6 * Scale) \div 10
                               THEN (2 * Scale) \div 100 ELSE 0)]
        : idx \in {coordToIndex(x, y, b.opts.width)} })

\* The body of the loops of generateBiomes for cell (x, y): the id stored.
BiomeCell(b, x, y) ==
  The({ classifyBiome(c.elevation, c.temp, c.moist, b.opts.seaLevel, c.beachThreshold,
                      (7 * Scale) \div 10, (85 * Scale) \div 100)
        : c \in {BiomeInputs(b, x, y)} })

\* Inputs of generateBiomes: grids that sweep the ranges the classifier tests.
BiomeW == 5
BiomeH == 4

FieldAt(kind, x, y, width, height, seaLevel) ==
  CASE kind = "east"  -> (x * Scale) \div (width - 1)
    [] kind = "south" -> (y * Scale) \div (height - 1)
    [] kind = "shore" -> clamp(seaLevel + 10 * (x - 2) + 40 * (y - 1), 0, Scale)
    [] kind = "peaks" -> clamp(650 + 60 * x + 20 * y, 0, Scale)
    [] kind = "low"   -> 150
    [] kind = "mid"   -> 550

Field(kind, width, height, seaLevel) ==
  [idx \in 0..(width * height - 1) |->
     FieldAt(kind, idx % width, idx \div width, width, height, seaLevel)]

BiomeOptions ==
  [width : {BiomeW}, height : {BiomeH}, seed : Seeds, seaLevel : {0, (35 * Scale) \div 100},
   elevation : {"east", "shore", "peaks"},
   temperature : {"south", "low", "mid"},
   moisture : {"east", "south", "low"}]

(***************************************************************************)
(* Heightmap synthesis (generateHeightmap and its helpers).  The map types *)
(* modelled are the ones whose masks need no trigonometry: island,         *)
(* continent, inland and great-lake.                                       *)
(***************************************************************************)
\* Math.sqrt, rounded down, for 0 <= n < 2^30.
ISqrt(n) ==
  Fold(LAMBDA r, k : IF (r + Pow2(15 - k)) * (r + Pow2(15 - k)) <= n
                     THEN r + Pow2(15 - k) ELSE r,
       1, 15, 0)

\* utils/math: distance(x1, y1, x2, y2), on positions times Scale
distance(x1, y1, x2, y2) == ISqrt(((x2 - x1) * (x2 - x1)) + ((y2 - y1) * (y2 - y1)))

\* utils/math: smootherstep(edge0, edge1, x) for edge0 < edge1
smootherstep(edge0, edge1, x) ==
  The({ (((((t * t) \div Scale) * t) \div Scale)
         * (FloorDiv(t * (6 * t - 15 * Scale), Scale) + 10 * Scale)) \div Scale
        : t \in {clamp(FloorDiv((x - edge0) * Scale, edge1 - edge0), 0, Scale)} })

\* generateFBM: six octaves of noise per cell, value / maxAmplitude.
generateFBM(width, height, noise, roughness) ==
  [idx \in 0..(width * height - 1) |->
     The({ FloorDiv(o.value * Scale, o.maxAmplitude)
           : o \in {Fold(LAMBDA a, k :
                           [amplitude |-> (a.amplitude * (Scale \div 2 + (roughness * 2) \div 10))
                                          \div Scale,
                            frequency |-> a.frequency * 2,
                            value |-> a.value
                                      + FloorDiv(noise2D(noise,
                                                   ((idx % width) * Scale * 4 * a.frequency)
                                                     \div Max2(width, height),
                                                   ((idx \div width) * Scale * 4 * a.frequency)
                                                     \div Max2(width, height))
                                                 * a.amplitude, Scale),
                            maxAmplitude |-> a.maxAmplitude + a.amplitude],
                         1, 6,
                         [amplitude |-> Scale, frequency |-> 1, value |-> 0,
                          maxAmplitude |-> 0])} })]

islandMask(normalizedDist, variation) ==
  Scale - smootherstep((3 * Scale) \div 10, (9 * Scale) \div 10, normalizedDist + variation)

continentMask(normalizedDist, variation) ==
  Scale - (smootherstep(Scale \div 2, Scale, normalizedDist + FloorDiv(variation, 2)) * 7) \div 10

\* inlandMask: <<0 (lake) or 1 (land), generator state>>; every call builds
\* its two noise functions from the generator.
inlandMask(x, y, width, height, st, waterCoverage) ==
  The({ The({ <<IF noise2D(lakeNoise[1], FloorDiv(x, width) * 3, FloorDiv(y, height) * 3)
                   + FloorDiv(noise2D(lakeDetail[1], FloorDiv(x, width) * 10,
                                      FloorDiv(y, height) * 10) * 2, 10)
                   < (waterCoverage * 24) \div 10 - (12 * Scale) \div 10
                THEN 0 ELSE Scale,
                lakeDetail[2]>>
              : lakeDetail \in {createNoise2D(lakeNoise[2])} })
        : lakeNoise \in {createNoise2D(st)} })

\* greatLakeMask: <<mask, generator state>>
greatLakeMask(x, y, width, height, st, normalizedDist, variation, waterCoverage) ==
  The({ The({ IF normalizedDist < lakeBoundary
              THEN The({ <<IF noise2D(islandNoise[1], FloorDiv(x, 50), FloorDiv(y, 50))
                              > (6 * Scale) \div 10
                           THEN Scale ELSE 0,
                           islandNoise[2]>>
                         : islandNoise \in {createNoise2D(shapeNoise[2])} })
              ELSE <<smootherstep(lakeBoundary, lakeBoundary + Scale \div 10, normalizedDist),
                     shapeNoise[2]>>
              : lakeBoundary \in {(2 * Scale) \div 10 + waterCoverage \div 2
                                  + FloorDiv(noise2D(shapeNoise[1], FloorDiv(x, 150),
                                                     FloorDiv(y, 150)) * 2, 10)} })
        : shapeNoise \in {createNoise2D(st)} })

\* The switch on mapType and the inland blending of applyLandmassMask:
\* <<mask, generator state>>.
LandmassMask(mapType, wx, wy, width, height, st, normalizedDist, variation, waterCoverage) ==
  The({ IF mapType \in {"continent", "peninsula", "isthmus", "island"}
           /\ m[1] > (8 * Scale) \div 10
        THEN The({ <<IF lakeVal[1] < Scale \div 10 THEN (m[1] * 3) \div 10 ELSE m[1],
                     lakeVal[2]>>
                   : lakeVal \in {inlandMask(wx, wy, width, height, m[2], waterCoverage)} })
        ELSE m
        : m \in {CASE mapType = "island" -> <<islandMask(normalizedDist, variation), st>>
                   [] mapType = "continent" -> <<continentMask(normalizedDist, variation), st>>
                   [] mapType = "inland" -> inlandMask(wx, wy, width, height, st, waterCoverage)
                   [] mapType = "great-lake" ->
                        greatLakeMask(wx, wy, width, height, st, normalizedDist, variation,
                                      waterCoverage)
                   [] OTHER -> <<Scale, st>>} })

\* The blend of applyLandmassMask: the height of a cell from its mask and its
\* noise value; the sea level of the blend is the literal 0.35.
BlendMask(mask, noiseValue) ==
  IF mask < (3 * Scale) \div 10
  THEN (((FloorDiv(mask * Scale, (3 * Scale) \div 10) * ((35 * Scale) \div 100)) \div Scale)
        * 95) \div 100
  ELSE (35 * Scale) \div 100
       + FloorDiv((((4 * Scale) \div 10 + (((noiseValue + Scale) \div 2) * 6) \div 10)
                   - (35 * Scale) \div 100)
                  * smootherstep(0, Scale, ((mask - (3 * Scale) \div 10) * Scale)
                                           \div ((7 * Scale) \div 10)),
                  Scale)

\* The body of the loops of applyLandmassMask for cell idx; a is
\* [heightmap, rng, mask], where mask keeps the value of the local `mask` of
\* every cell passed.
LandmassCell(a, idx, width, height, mapType, waterCoverage, warpNoiseX, warpNoiseY) ==
  The({ The({ The({ [heightmap |-> [a.heightmap EXCEPT ![idx] = BlendMask(m[1], a.heightmap[idx])],
                     rng |-> m[2], mask |-> [a.mask EXCEPT ![idx] = m[1]]]
                    : m \in {LandmassMask(mapType, w[1], w[2], width, height, a.rng,
                                          normalizedDist,
                                          FloorDiv(noise2D(warpNoiseX, FloorDiv(w[1], 50),
                                                           FloorDiv(w[2], 50)) * 2, 10),
                                          waterCoverage)} })
              : normalizedDist \in {(distance(w[1], w[2], (width * Scale) \div 2,
                                              (height * Scale) \div 2) * 2)
                                    \div Min2(width, height)} })
        : w \in {<<(idx % width) * Scale
                   + FloorDiv(noise2D(warpNoiseX, (idx % width) * 5, (idx \div width) * 5)
                              * ((Min2(width, height) * Scale * 2) \div 10), Scale),
                   (idx \div width) * Scale
                   + FloorDiv(noise2D(warpNoiseY, (idx % width) * 5, (idx \div width) * 5)
                              * ((Min2(width, height) * Scale * 2) \div 10), Scale)>>} })

\* applyLandmassMask: the two warp noises, the draws for angle, scaleX and
\* scaleY (read by the directional masks only), then the loops; the result is
\* [heightmap, rng, mask].
LandmassLoops(heightmap, width, height, mapType, st, waterCoverage) ==
  The({ The({ Fold(LAMBDA a, idx :
                     LandmassCell(a, idx, width, height, mapType, waterCoverage,
                                  warpNoiseX[1], warpNoiseY[1]),
                   0, width * height - 1,
                   [heightmap |-> heightmap,
                    rng |-> RngNext(RngNext(RngNext(warpNoiseY[2])[2])[2])[2],
                    mask |-> [idx \in DOMAIN heightmap |-> 0]])
              : warpNoiseY \in {createNoise2D(warpNoiseX[2])} })
        : warpNoiseX \in {createNoise2D(st)} })

\* applyLandmassMask, which writes the heightmap in place.
applyLandmassMask(heightmap, width, height, mapType, st, waterCoverage) ==
  LandmassLoops(heightmap, width, height, mapType, st, waterCoverage).heightmap

\* normalizeHeightmap: clamp only
normalizeHeightmap(heightmap) ==
  [i \in DOMAIN heightmap |-> clamp(heightmap[i], 0, Scale)]

\* Variant: each change is written at once, so that the cells scanned later
\* read it.
cleanupInPlace(heightmap, width, height, threshold) ==
  Fold(LAMBDA g, idx :
         IF idx % width < 1 \/ idx % width >= width - 1
            \/ idx \div width < 1 \/ idx \div width >= height - 1
         THEN g
         ELSE The({ IF g[idx] > threshold /\ landCount <= 1
                    THEN [g EXCEPT ![idx] = threshold - Scale \div 100]
                    ELSE IF ~(g[idx] > threshold) /\ landCount >= 3
                    THEN [g EXCEPT ![idx] = threshold + Scale \div 100]
                    ELSE g
                    : landCount \in
                        {Cardinality({nIdx \in {idx + 1, idx - 1, idx + width, idx - width} :
                                        g[nIdx] > threshold})} }),
       0, width * height - 1, heightmap)

\* cleanupArtifacts: every decision reads the grid as it was before the pass.
cleanupArtifacts(heightmap, width, height, threshold) ==
  [idx \in DOMAIN heightmap |->
     IF idx % width < 1 \/ idx % width >= width - 1
        \/ idx \div width < 1 \/ idx \div width >= height - 1
     THEN heightmap[idx]
     ELSE The({ IF heightmap[idx] > threshold /\ neighborLandCount <= 1
                THEN threshold - Scale \div 100
                ELSE IF ~(heightmap[idx] > threshold) /\ neighborLandCount >= 3
                THEN threshold + Scale \div 100
                ELSE heightmap[idx]
                : neighborLandCount \in
                    {Cardinality({nIdx \in {idx + 1, idx - 1, idx + width, idx - width} :
                                    heightmap[nIdx] > threshold})} })]

\* Inputs of generateHeightmap.
HeightW == 7
HeightH == 6

MapTypes == {"island", "continent", "inland", "great-lake"}

HeightmapOptions ==
  [width : {HeightW}, height : {HeightH}, seed : Seeds, mapType : MapTypes,
   seaLevel : {0, (35 * Scale) \div 100, Scale}, roughness : {(6 * Scale) \div 10},
   waterCoverage : {(4 * Scale) \div 10, (7 * Scale) \div 10}]

(***************************************************************************)
(* Hydraulic and thermal erosion (generation/terrain/erosion.ts).  A       *)
(* droplet is the record of the loop variables of applyErosion: the array  *)
(* under erosion, the generator, the position, direction, speed, water and *)
(* sediment, and live = the inner loop has not reached a break.            *)
(***************************************************************************)
\* utils/math: gradient(data, x, y, width, height)
gradient(data, x, y, width, height) ==
  [dx |-> FloorDiv(data[coordToIndex(IF x < width - 1 THEN x + 1 ELSE x, y, width)]
                   - data[coordToIndex(IF x > 0 THEN x - 1 ELSE x, y, width)], 2),
   dy |-> FloorDiv(data[coordToIndex(x, IF y < height - 1 THEN y + 1 ELSE y, width)]
                   - data[coordToIndex(x, IF y > 0 THEN y - 1 ELSE y, width)], 2)]

\* x0, y0, x1, y1, fx, fy of getInterpolatedHeight and depositSediment
Corners(x, y, width, height) ==
  [x0 |-> FloorDiv(x, Scale), y0 |-> FloorDiv(y, Scale),
   x1 |-> Min2(FloorDiv(x, Scale) + 1, width - 1),
   y1 |-> Min2(FloorDiv(y, Scale) + 1, height - 1),
   fx |-> x - FloorDiv(x, Scale) * Scale, fy |-> y - FloorDiv(y, Scale) * Scale]

getInterpolatedHeight(heightmap, x, y, width, height) ==
  The({ FloorDiv(FloorDiv(heightmap[coordToIndex(c.x0, c.y0, width)] * (Scale - c.fx)
                          + heightmap[coordToIndex(c.x1, c.y0, width)] * c.fx, Scale)
                 * (Scale - c.fy)
                 + FloorDiv(heightmap[coordToIndex(c.x0, c.y1, width)] * (Scale - c.fx)
                            + heightmap[coordToIndex(c.x1, c.y1, width)] * c.fx, Scale)
                   * c.fy,
                 Scale)
        : c \in {Corners(x, y, width, height)} })

\* depositSediment: the four += in turn
depositSediment(heightmap, x, y, width, height, amount) ==
  The({ [heightmap EXCEPT
           ![coordToIndex(c.x0, c.y0, width)] =
              @ + FloorDiv(FloorDiv(amount * (Scale - c.fx), Scale) * (Scale - c.fy), Scale),
           ![coordToIndex(c.x1, c.y0, width)] =
              @ + FloorDiv(FloorDiv(amount * c.fx, Scale) * (Scale - c.fy), Scale),
           ![coordToIndex(c.x0, c.y1, width)] =
              @ + FloorDiv(FloorDiv(amount * (Scale - c.fx), Scale) * c.fy, Scale),
           ![coordToIndex(c.x1, c.y1, width)] =
              @ + FloorDiv(FloorDiv(amount * c.fx, Scale) * c.fy, Scale)]
        : c \in {Corners(x, y, width, height)} })

\* erodeTerrain, radius = 2: the weight Math.max(0, radius - dist) / radius of
\* the offsets with dist <= radius.
ErodeWeights ==
  [dx \in -2..2, dy \in -2..2 |->
     IF dx * dx + dy * dy <= 4
     THEN Max2(0, 2 * Scale - ISqrt((dx * dx + dy * dy) * Scale * Scale)) \div 2
     ELSE 0]

erodeTerrain(heightmap, x, y, width, height, amount) ==
  The({ [idx \in DOMAIN heightmap |->
           IF Abs((idx % width) - FloorDiv(x, Scale)) <= 2
              /\ Abs((idx \div width) - FloorDiv(y, Scale)) <= 2
           THEN heightmap[idx]
                - FloorDiv(amount * ErodeWeights[(idx % width) - FloorDiv(x, Scale),
                                                 (idx \div width) - FloorDiv(y, Scale)],
                           totalWeight)
           ELSE heightmap[idx]]
        : totalWeight \in
            {Fold(LAMBDA t, k :
                    IF FloorDiv(x, Scale) + (k % 5) - 2 < 0
                       \/ FloorDiv(x, Scale) + (k % 5) - 2 >= width
                       \/ FloorDiv(y, Scale) + (k \div 5) - 2 < 0
                       \/ FloorDiv(y, Scale) + (k \div 5) - 2 >= height
                    THEN t
                    ELSE t + ErodeWeights[(k % 5) - 2, (k \div 5) - 2],
                  0, 24, 0)} })

\* Math.cos(angle) * Scale for angle = k * PI / 8, k = 0..15: the directions a
\* droplet on flat ground draws from; Math.sin is the entry 12 places on.
Cos16 ==
  <<1000, 924, 707, 383, 0, -383, -707, -924, -1000, -924, -707, -383, 0, 383, 707, 924>>

\* The direction of the next move: inertia, gradient, normalisation, and the
\* random direction when the length is 0.
DropletDirection(d, width, height) ==
  The({ The({ IF len > 0
              THEN [dirX |-> FloorDiv(v[1] * Scale, len), dirY |-> FloorDiv(v[2] * Scale, len),
                    rng |-> d.rng]
              ELSE The({ [dirX |-> Cos16[ScaleOut(r[1], 16) + 1],
                          dirY |-> Cos16[((ScaleOut(r[1], 16) + 12) % 16) + 1],
                          rng |-> r[2]]
                         : r \in {RngNext(d.rng)} })
              : len \in {ISqrt(v[1] * v[1] + v[2] * v[2])} })
        : v \in {The({ <<FloorDiv(d.dirX * 3 - grad.dx * 7, 10),
                         FloorDiv(d.dirY * 3 - grad.dy * 7, 10)>>
                       : grad \in {gradient(d.result, FloorDiv(d.x, Scale),
                                            FloorDiv(d.y, Scale), width, height)} })} })

\* The rest of the loop body once the move is known to stay on the map:
\* capacity, deposit or erode, speed, evaporation, and the move unless the
\* water has run out.
DropletExchange(d, dir, heightDiff, width, height) ==
  The({ The({ [result |-> IF d.sediment > capacity \/ heightDiff > 0
                          THEN depositSediment(d.result, d.x, d.y, width, height, amount)
                          ELSE erodeTerrain(d.result, d.x, d.y, width, height, amount),
               rng |-> dir.rng,
               x |-> IF (d.water * 98) \div 100 >= Scale \div 100 THEN d.x + dir.dirX ELSE d.x,
               y |-> IF (d.water * 98) \div 100 >= Scale \div 100 THEN d.y + dir.dirY ELSE d.y,
               dirX |-> dir.dirX, dirY |-> dir.dirY,
               speed |-> ISqrt(Max2(0, d.speed * d.speed + heightDiff * Scale)),
               water |-> (d.water * 98) \div 100,
               sediment |-> IF d.sediment > capacity \/ heightDiff > 0
                            THEN d.sediment - amount ELSE d.sediment + amount,
               live |-> (d.water * 98) \div 100 >= Scale \div 100]
              : amount \in {IF d.sediment > capacity \/ heightDiff > 0
                            THEN IF heightDiff > 0 THEN Min2(d.sediment, heightDiff)
                                 ELSE FloorDiv((d.sediment - capacity) * 3, 10)
                            ELSE Min2(FloorDiv((capacity - d.sediment) * 3, 10),
                                      -heightDiff)} })
        : capacity \in {Max2(FloorDiv(FloorDiv(Max2(-heightDiff, Scale \div 100) * d.speed,
                                               Scale) * d.water, Scale) * 4, 0)} })

maxSteps == 64

\* One pass of the inner loop of applyErosion.
DropletStep(d, width, height) ==
  IF ~d.live THEN d
  ELSE IF d.x < 0 \/ FloorDiv(d.x, Scale) >= width - 1
          \/ d.y < 0 \/ FloorDiv(d.y, Scale) >= height - 1
  THEN [d EXCEPT !.live = FALSE]
  ELSE The({ IF d.x + dir.dirX < 0 \/ d.x + dir.dirX >= (width - 1) * Scale
                \/ d.y + dir.dirY < 0 \/ d.y + dir.dirY >= (height - 1) * Scale
             THEN [d EXCEPT !.live = FALSE, !.rng = dir.rng]
             ELSE The({ DropletExchange(d, dir, heightDiff, width, height)
                        : heightDiff \in
                            {getInterpolatedHeight(d.result, d.x + dir.dirX, d.y + dir.dirY,
                                                   width, height)
                             - getInterpolatedHeight(d.result, d.x, d.y, width, height)} })
             : dir \in {DropletDirection(d, width, height)} })

\* Variant: the result is returned as the droplets left it.
KeepHeights(result) == result

\* The normalisation that ends applyErosion: (v - min) / (max - min || 1),
\* clamped.
NormalizeErosion(result) ==
  The({ [i \in DOMAIN result |->
           clamp(FloorDiv((result[i] - m[1]) * Scale,
                          IF m[2] - m[1] = 0 THEN Scale ELSE m[2] - m[1]),
                 0, Scale)]
        : m \in {Fold(LAMBDA a, i : <<Min2(a[1], result[i]), Max2(a[2], result[i])>>,
                      0, Cardinality(DOMAIN result) - 1, <<result[0], result[0]>>)} })

\* applyErosion(heightmap, seed, {width, height, iterations})
applyErosion(heightmap, seed, width, height, iterations) ==
  NormalizeErosion(
    Fold(LAMBDA a, i :
           Fold(LAMBDA d, step : DropletStep(d, width, height),
                1, maxSteps,
                The({ The({ [result |-> a.result, rng |-> ry[2],
                             x |-> ScaleOut(rx[1], (width - 1) * Scale),
                             y |-> ScaleOut(ry[1], (height - 1) * Scale),
                             dirX |-> 0, dirY |-> 0, speed |-> Scale, water |-> Scale,
                             sediment |-> 0, live |-> TRUE]
                            : ry \in {RngNext(rx[2])} })
                      : rx \in {RngNext(a.rng)} })),
         1, iterations,
         [result |-> heightmap, rng |-> SeededRandom(seed \o SeedTag.erosion)]).result)

\* The store of a value into a Float32Array cell: the value is rounded to the
\* nearest value the array can hold, ties to even.  The grids of the model
\* hold multiples of 1 / Scale, and `twice` is twice the value stored.
fround2(twice) ==
  IF twice % 2 = 0 THEN twice \div 2
  ELSE IF FloorDiv(twice, 2) % 2 = 0 THEN FloorDiv(twice, 2)
  ELSE FloorDiv(twice, 2) + 1

\* Variant: no material slides.
ThermalRest(result, idx, width) == result

\* The body of the loops of applyThermalErosion for the interior cell idx,
\* talusAngle = 0.5: m is <<maxDiff, maxNeighbor>>, transfer is
\* (maxDiff - talusAngle) * 0.5, and each of the two stores rounds.
ThermalCell(result, idx, width) ==
  The({ IF m[2] >= 0
        THEN [result EXCEPT ![idx] = fround2(2 * @ - (m[1] - Scale \div 2)),
                            ![m[2]] = fround2(2 * @ + (m[1] - Scale \div 2))]
        ELSE result
        : m \in {Fold(LAMBDA a, k :
                        The({ IF result[idx] - result[nIdx] > a[1]
                                 /\ result[idx] - result[nIdx] > Scale \div 2
                              THEN <<result[idx] - result[nIdx], nIdx>>
                              ELSE a
                              : nIdx \in {<<idx - 1, idx + 1, idx - width, idx + width>>[k]} }),
                      1, 4, <<0, -1>>)} })

\* applyThermalErosion(heightmap, width, height, iterations): the cells of the
\* interior in row-major order, `iterations` times over.
applyThermalErosion(heightmap, width, height, iterations) ==
  Fold(LAMBDA result, k :
         ThermalCell(result,
                     coordToIndex(1 + (k % (width - 2)),
                                  1 + ((k \div (width - 2)) % (height - 2)), width),
                     width),
       0, iterations * (width - 2) * (height - 2) - 1, heightmap)

(***************************************************************************)
(* Climate (generation/climate/index.ts) and the blur of utils/math.       *)
(***************************************************************************)
\* Math.exp(-(d * d) / s) * Scale for s = 2 * (radius / 3)^2 and d = 0..radius,
\* for the radii the program blurs with.
GaussExp == (3 :> <<1000, 607, 135, 11>>) @@ (4 :> <<1000, 755, 325, 80, 11>>)

\* createGaussianKernel(radius): value / sum; the factor 1 / (PI * s) of value
\* is common to value and sum.
createGaussianKernel(radius) ==
  The({ [ky \in -radius..radius, kx \in -radius..radius |->
           (((GaussExp[radius][Abs(ky) + 1] * GaussExp[radius][Abs(kx) + 1]) \div Scale)
            * Scale) \div sum]
        : sum \in {Fold(LAMBDA t, k :
                          t + (GaussExp[radius][Abs((k \div (2 * radius + 1)) - radius) + 1]
                               * GaussExp[radius][Abs((k % (2 * radius + 1)) - radius) + 1])
                              \div Scale,
                        0, (2 * radius + 1) * (2 * radius + 1) - 1, 0)} })

\* utils/math: gaussianBlur(data, width, height, radius)
gaussianBlur(data, width, height, radius) ==
  The({ [idx \in DOMAIN data |->
           The({ s[1] \div s[2]
                 : s \in {Fold(LAMBDA a, k :
                                 <<a[1]
                                   + data[coordToIndex(
                                            clamp((idx % width) + (k % (2 * radius + 1)) - radius,
                                                  0, width - 1),
                                            clamp((idx \div width) + (k \div (2 * radius + 1))
                                                  - radius, 0, height - 1),
                                            width)]
                                     * kernel[(k \div (2 * radius + 1)) - radius,
                                              (k % (2 * radius + 1)) - radius],
                                   a[2] + kernel[(k \div (2 * radius + 1)) - radius,
                                                 (k % (2 * radius + 1)) - radius]>>,
                               0, (2 * radius + 1) * (2 * radius + 1) - 1, <<0, 0>>)} })]
        : kernel \in {createGaussianKernel(radius)} })

\* generateTemperature: <<temperature, generator state>>
generateTemperature(width, height, heightmap, seaLevel, st) ==
  The({ <<gaussianBlur(
            [idx \in DOMAIN heightmap |->
               clamp(FloorDiv((((Scale - Abs((((idx \div width) * Scale) \div height)
                                             - Scale \div 2) * 2) * 8) \div 10
                               + Scale \div 10)
                              * (Scale - (Max2(0, heightmap[idx] - seaLevel) * 15) \div 10),
                              Scale)
                     + FloorDiv(noise2D(noise[1], ((idx % width) * Scale) \div 150,
                                        ((idx \div width) * Scale) \div 150) * 15, 100)
                     + FloorDiv(noise2D(noise[1], ((idx % width) * Scale) \div 50 + 500 * Scale,
                                        ((idx \div width) * Scale) \div 50 + 500 * Scale) * 8,
                                100)
                     + (IF heightmap[idx] < seaLevel THEN Scale \div 10 ELSE 0),
                     0, Scale)],
            width, height, 3),
          noise[2]>>
        : noise \in {createNoise2D(st)} })

spreadPasses == 30

\* Variant: moisture does not spread.
SpreadNothing(tempMoisture, idx, width, heightmap, seaLevel) == tempMoisture

\* The body of the spread loops of generateMoisture for the interior cell idx.
SpreadCell(tempMoisture, idx, width, heightmap, seaLevel) ==
  IF heightmap[idx] >= seaLevel
  THEN [tempMoisture EXCEPT
          ![idx] = Max2(@, (Max2(Max2(tempMoisture[idx - 1], tempMoisture[idx + 1]),
                                 Max2(tempMoisture[idx - width], tempMoisture[idx + width]))
                            * (IF heightmap[idx] > seaLevel + (3 * Scale) \div 10
                               THEN 70 ELSE 92)) \div 100)]
  ELSE tempMoisture

\* The water cells and the spread passes of generateMoisture: tempMoisture
\* after the last pass.
spreadMoisture(width, height, heightmap, seaLevel) ==
  Fold(LAMBDA tempMoisture, k :
         SpreadCell(tempMoisture,
                    coordToIndex(1 + (k % (width - 2)),
                                 1 + ((k \div (width - 2)) % (height - 2)),
                                 width),
                    width, heightmap, seaLevel),
       0, spreadPasses * (width - 2) * (height - 2) - 1,
       [idx \in DOMAIN heightmap |-> IF heightmap[idx] < seaLevel THEN Scale ELSE 0])

\* generateMoisture: water cells, the spread passes, noise and temperature,
\* the blur.
generateMoisture(width, height, heightmap, temperature, seaLevel, st) ==
  The({ The({ gaussianBlur(
                [idx \in DOMAIN heightmap |->
                   IF heightmap[idx] >= seaLevel
                   THEN clamp(spread[idx]
                              + FloorDiv(noise2D(noise[1], ((idx % width) * Scale) \div 100,
                                                 ((idx \div width) * Scale) \div 100) * 2, 10)
                              + FloorDiv(noise2D(noise[1], ((idx % width) * Scale) \div 50,
                                                 ((idx \div width) * Scale) \div 50), 10)
                              - (temperature[idx] * 15) \div 100,
                              0, Scale)
                   ELSE spread[idx]],
                width, height, 4)
              : spread \in {spreadMoisture(width, height, heightmap, seaLevel)} })
        : noise \in {createNoise2D(st)} })

generateClimate(width, height, seed, heightmap, seaLevel) ==
  The({ [temperature |-> t[1],
         moisture |-> generateMoisture(width, height, heightmap, t[1], seaLevel, t[2])]
        : t \in {generateTemperature(width, height, heightmap, seaLevel,
                                     SeededRandom(seed \o SeedTag.climate))} })

\* carveRiversIntoHeightmap(heightmap, rivers, width), carveDepth = 0.02
carveRiversIntoHeightmap(heightmap, rivers, width) ==
  Fold(LAMBDA h, i :
         Fold(LAMBDA g, j :
                IF CellOf(rivers[i].segments[j].x) >= 0
                   /\ CellOf(rivers[i].segments[j].x) < width
                   /\ CellOf(rivers[i].segments[j].y) >= 0
                   /\ CellOf(rivers[i].segments[j].y) * width < Cardinality(DOMAIN heightmap)
                THEN [g EXCEPT ![SegCell(rivers[i].segments[j], width)] =
                                  Max2(0, @ - (((2 * Scale) \div 100)
                                               * rivers[i].segments[j].flow) \div Scale)]
                ELSE g,
              1, Len(rivers[i].segments), h),
       1, Len(rivers), heightmap)

(***************************************************************************)
(* Settlements (generation/civilization/settlements.ts).                   *)
(***************************************************************************)
\* BIOME_OCEAN, BIOME_BEACH, BIOME_MOUNTAIN, BIOME_SNOW of settlements.ts
BIOME == [OCEAN |-> 0, BEACH |-> 1, MOUNTAIN |-> 8, SNOW |-> 7]

SETTLEMENT_POPULATIONS ==
  [thorp |-> <<20, 80>>, hamlet |-> <<81, 400>>, village |-> <<401, 900>>,
   small_town |-> <<901, 2000>>, large_town |-> <<2001, 5000>>,
   small_city |-> <<5001, 12000>>, large_city |-> <<12001, 25000>>,
   metropolis |-> <<25001, 100000>>]

\* riverProximity[idx]: the largest 1 - dist / 10 over the river samples within
\* 10 cells in x and in y.
riverProximity(idx, width, rivers) ==
  Fold(LAMBDA p, i :
         Fold(LAMBDA q, j :
                The({ IF Abs(o[1]) <= 10 /\ Abs(o[2]) <= 10
                      THEN Max2(q, Max2(0, Scale - ISqrt((o[1] * o[1] + o[2] * o[2])
                                                         * Scale * Scale) \div 10))
                      ELSE q
                      : o \in {<<(idx % width) - CellOf(rivers[i].segments[j].x),
                                 (idx \div width) - CellOf(rivers[i].segments[j].y)>>} }),
              1, Len(rivers[i].segments), p),
       1, Len(rivers), 0)

\* coastProximity[idx]: 1 for a cell that is not ocean and has an ocean cell
\* among its 8 neighbours.
coastProximity(idx, width, height, biomes) ==
  IF biomes[idx] # BIOME.OCEAN
     /\ \E dy \in -1..1, dx \in -1..1 :
          /\ (idx % width) + dx >= 0 /\ (idx % width) + dx < width
          /\ (idx \div width) + dy >= 0 /\ (idx \div width) + dy < height
          /\ biomes[coordToIndex((idx % width) + dx, (idx \div width) + dy, width)]
             = BIOME.OCEAN
  THEN Scale ELSE 0

\* Variant: every cell scores 0.5.
suitableEverywhere(width, height, heightmap, moisture, biomes, rivers) ==
  [idx \in DOMAIN biomes |-> Scale \div 2]

calculateSuitability(width, height, heightmap, moisture, biomes, rivers) ==
  [idx \in DOMAIN biomes |->
     IF biomes[idx] \in {BIOME.OCEAN, BIOME.MOUNTAIN, BIOME.SNOW} THEN 0
     ELSE Max2(0, Min2(Scale,
            Scale \div 2
            + FloorDiv((Scale - Abs(heightmap[idx] - (4 * Scale) \div 10) * 2) * 2, 10)
            + (riverProximity(idx, width, rivers) * 3) \div 10
            + (coastProximity(idx, width, height, biomes) * 25) \div 100
            + moisture[idx] \div 10
            + (IF biomes[idx] = BIOME.BEACH THEN (15 * Scale) \div 100 ELSE 0)))]

\* The sample points that score 0.3 or more, whatever their distance to the
\* positions already placed.
CandidatesAnywhere(width, height, suitability, placedPositions, minDistance) ==
  The({ Fold(LAMBDA cs, i :
               IF suitability[coordToIndex(pts[i].x, pts[i].y, width)] < (3 * Scale) \div 10
               THEN cs
               ELSE Append(cs, [x |-> pts[i].x, y |-> pts[i].y,
                                weight |-> suitability[coordToIndex(pts[i].x, pts[i].y, width)]
                                           * suitability[coordToIndex(pts[i].x, pts[i].y,
                                                                      width)]]),
             1, Len(pts), <<>>)
        : pts \in {SamplePoints(Max2(2, width \div 100), Max2(2, width \div 100),
                                Max2(2, width \div 100), width, height)} })

\* The candidates of findSettlementLocation in scan order, each with its
\* weight score * score (times Scale * Scale).
Candidates(width, height, suitability, placedPositions, minDistance) ==
  The({ Fold(LAMBDA cs, i :
               IF suitability[coordToIndex(pts[i].x, pts[i].y, width)] < (3 * Scale) \div 10
                  \/ \E p \in 1..Len(placedPositions) :
                       distance(pts[i].x * Scale, pts[i].y * Scale,
                                placedPositions[p].x * Scale, placedPositions[p].y * Scale)
                       < minDistance
               THEN cs
               ELSE Append(cs, [x |-> pts[i].x, y |-> pts[i].y,
                                weight |-> suitability[coordToIndex(pts[i].x, pts[i].y, width)]
                                           * suitability[coordToIndex(pts[i].x, pts[i].y,
                                                                      width)]]),
             1, Len(pts), <<>>)
        : pts \in {SamplePoints(Max2(2, width \div 100), Max2(2, width \div 100),
                                Max2(2, width \div 100), width, height)} })

\* findSettlementLocation: found = FALSE stands for null; the generator is
\* drawn from only when there is a candidate.
findSettlementLocation(width, height, suitability, placedPositions, minDistance, st) ==
  The({ IF Len(candidates) = 0 THEN [found |-> FALSE, x |-> 0, y |-> 0, rng |-> st]
        ELSE The({ The({ [found |-> TRUE,
                          x |-> candidates[IF w[2] = 0 THEN Len(candidates) ELSE w[2]].x,
                          y |-> candidates[IF w[2] = 0 THEN Len(candidates) ELSE w[2]].y,
                          rng |-> r[2]]
                         : w \in {Fold(LAMBDA a, i :
                                         <<a[1] - candidates[i].weight,
                                           IF a[2] = 0 /\ a[1] - candidates[i].weight <= 0
                                           THEN i ELSE a[2]>>,
                                       1, Len(candidates),
                                       <<ScaleOut(r[1], Fold(LAMBDA t, i : t + candidates[i].weight,
                                                             1, Len(candidates), 0)),
                                         0>>)} })
                   : r \in {RngNext(st)} })
        : candidates \in {Candidates(width, height, suitability, placedPositions,
                                     minDistance)} })

isNearRiverMouth(x, y, rivers, maxDist) ==
  \E i \in 1..Len(rivers) :
    /\ Len(rivers[i].segments) # 0
    /\ distance(x * Scale, y * Scale, rivers[i].segments[Len(rivers[i].segments)].x,
                rivers[i].segments[Len(rivers[i].segments)].y) < maxDist * Scale

isNearMajorRiver(x, y, rivers, maxDist) ==
  \E i \in 1..Len(rivers) :
    /\ Len(rivers[i].segments) >= 20
    /\ \E j \in 1..Len(rivers[i].segments) :
         distance(x * Scale, y * Scale, rivers[i].segments[j].x, rivers[i].segments[j].y)
         < maxDist * Scale

\* determineSettlementSize: <<size, generator state>>
determineSettlementSize(x, y, width, suitability, rivers, biomes, st) ==
  The({ The({ <<IF sizeScore > (9 * Scale) \div 10 THEN "metropolis"
                ELSE IF sizeScore > (8 * Scale) \div 10 THEN "large_city"
                ELSE IF sizeScore > (7 * Scale) \div 10 THEN "small_city"
                ELSE IF sizeScore > (6 * Scale) \div 10 THEN "large_town"
                ELSE IF sizeScore > (5 * Scale) \div 10 THEN "small_town"
                ELSE IF sizeScore > (4 * Scale) \div 10 THEN "village"
                ELSE IF sizeScore > (3 * Scale) \div 10 THEN "hamlet"
                ELSE "thorp",
                r[2]>>
              : sizeScore \in
                  {suitability[coordToIndex(x, y, width)]
                   + (IF isNearRiverMouth(x, y, rivers, 20) THEN (3 * Scale) \div 10 ELSE 0)
                   + (IF biomes[coordToIndex(x, y, width)] = BIOME.BEACH
                      THEN (2 * Scale) \div 10 ELSE 0)
                   + (IF isNearMajorRiver(x, y, rivers, 15) THEN (15 * Scale) \div 100 ELSE 0)
                   + Jitter(r[1])} })
        : r \in {RngNext(st)} })

determineSettlementType(x, y, width, biomes, rivers, heightmap) ==
  IF biomes[coordToIndex(x, y, width)] = BIOME.BEACH THEN "port"
  ELSE IF isNearMajorRiver(x, y, rivers, 10) THEN "river_town"
  ELSE IF heightmap[coordToIndex(x, y, width)] > (6 * Scale) \div 10 THEN "mountain_town"
  ELSE "farming_village"

\* The settlement built at a location: the draws are those of
\* determineSettlementSize, rng.uuid() and generatePopulation, in that order.
\* <<settlement, generator state>>
NewSettlement(x, y, width, suitability, rivers, biomes, heightmap, st) ==
  The({ The({ The({ <<[id |-> id[1], name |-> "", x |-> x, y |-> y, size |-> size[1],
                       population |-> SETTLEMENT_POPULATIONS[size[1]][1]
                                      + ScaleOut(r[1], SETTLEMENT_POPULATIONS[size[1]][2] + 1
                                                       - SETTLEMENT_POPULATIONS[size[1]][1]),
                       type |-> determineSettlementType(x, y, width, biomes, rivers,
                                                        heightmap)],
                      r[2]>>
                    : r \in {RngNext(id[2])} })
              : id \in {uuid(size[2])} })
        : size \in {determineSettlementSize(x, y, width, suitability, rivers, biomes, st)} })

\* Variant: an attempt places nothing.
PlaceNothing(a, count, minDistance, width, height, suitability, rivers, biomes, heightmap) == a

\* One attempt of the placement loop; a is [settlements, rng].
PlaceSettlement(a, count, minDistance, width, height, suitability, rivers, biomes, heightmap) ==
  IF Len(a.settlements) >= count THEN a
  ELSE The({ IF location.found
             THEN The({ [settlements |-> Append(a.settlements, s[1]), rng |-> s[2]]
                        : s \in {NewSettlement(location.x, location.y, width, suitability,
                                               rivers, biomes, heightmap, location.rng)} })
             ELSE a
             : location \in {findSettlementLocation(width, height, suitability,
                                                    a.settlements, minDistance, a.rng)} })

\* The settlements in the order they were placed.
PlacementOrder(settlements) == settlements

\* settlements.sort((a, b) => b.population - a.population): descending, stable.
SortByPopulation(settlements) ==
  Fold(LAMBDA sorted, i :
         The({ SubSeq(sorted, 1, n) \o <<settlements[i]>> \o SubSeq(sorted, n + 1, Len(sorted))
               : n \in {Cardinality({j \in 1..Len(sorted) :
                                       sorted[j].population >= settlements[i].population})} }),
       1, Len(settlements), <<>>)

\* settlementCount of generateSettlements
settlementCount(width, height, biomes, density) ==
  Max2(3, Min2((Cardinality({i \in DOMAIN biomes : biomes[i] # BIOME.OCEAN}) * density * 50)
               \div (width * height * Scale), 100))

generateSettlements(width, height, seed, heightmap, moisture, biomes, rivers, density) ==
  The({ The({ SortByPopulation(
                Fold(LAMBDA a, attempt :
                       PlaceSettlement(a, count,
                                       ISqrt((width * height * Scale * Scale) \div count) \div 2,
                                       width, height, suitability, rivers, biomes, heightmap),
                     0, count * 10 - 1,
                     [settlements |-> <<>>,
                      rng |-> SeededRandom(seed \o SeedTag.settlements)]).settlements)
              : count \in {settlementCount(width, height, biomes, density)} })
        : suitability \in {calculateSuitability(width, height, heightmap, moisture, biomes,
                                                rivers)} })

(***************************************************************************)
(* Names (generation/naming/index.ts).  A name is written as the pattern   *)
(* drawn and the table position drawn for each of its parts: "S2.14.3.40"  *)
(* is the settlement name of pattern 2 made of prefixes[14], middles[3]    *)
(* and suffixes[40].                                                       *)
(***************************************************************************)
\* The lengths of the tables each pattern picks from, in the order it picks.
NameParts ==
  [S |-> << <<67, 42>>, <<65, 42>>, <<67, 19, 42>>, <<65, 65>> >>,
   R |-> << <<16, 20, 10>>, <<20, 10>>, <<16, 20>> >>]

\* The generator () => string of generateSettlementName ("S") and
\* generateRiverName ("R"): <<name, generator state>>
generateName(kind, st) ==
  The({ Fold(LAMBDA a, k :
               The({ <<a[1] \o "." \o ToString(ScaleOut(r[1], NameParts[kind][pattern[1] + 1][k])),
                       r[2]>>
                     : r \in {RngNext(a[2])} }),
             1, Len(NameParts[kind][pattern[1] + 1]),
             <<kind \o ToString(pattern[1]), pattern[2]>>)
        : pattern \in {The({ <<ScaleOut(p[1], Len(NameParts[kind])), p[2]>>
                             : p \in {RngNext(st)} })} })

maxAttempts == 100

\* generateUniqueName: <<name, generator state>>
generateUniqueName(kind, usedNames, st) ==
  The({ <<u.name, u.rng>>
        : u \in {Fold(LAMBDA a, attempts :
                        IF a.done THEN a
                        ELSE The({ [name |-> n[1], rng |-> n[2],
                                    done |-> n[1] \notin usedNames]
                                   : n \in {generateName(kind, a.rng)} }),
                      1, maxAttempts, [name |-> "", rng |-> st, done |-> FALSE])} })

\* Variant: the settlements are returned in the reverse order, unnamed.
applyNamesReversed(seed, settlements, rivers) ==
  [settlements |-> [i \in 1..Len(settlements) |-> settlements[Len(settlements) + 1 - i]],
   rivers |-> rivers]

\* applyNames(seed, settlements, rivers): the settlements are named first, then
\* the rivers; [settlements, rivers] with the name fields set.
applyNames(seed, settlements, rivers) ==
  The({ [settlements |-> named.settlements, rivers |-> named.rivers]
        : named \in
            {Fold(LAMBDA a, i :
                    The({ IF i <= Len(settlements)
                          THEN [a EXCEPT !.settlements[i].name = n[1],
                                         !.usedNames = @ \cup {n[1]}, !.rng = n[2]]
                          ELSE [a EXCEPT !.rivers[i - Len(settlements)].name = n[1],
                                         !.usedNames = @ \cup {n[1]}, !.rng = n[2]]
                          : n \in {generateUniqueName(IF i <= Len(settlements) THEN "S" ELSE "R",
                                                      a.usedNames, a.rng)} }),
                  1, Len(settlements) + Len(rivers),
                  [settlements |-> settlements, rivers |-> rivers, usedNames |-> {},
                   rng |-> SeededRandom(seed \o SeedTag.names)])} })

(***************************************************************************)
(* generateMap (src/generation/index.ts) and the constants it reads.  The  *)
(* maps of the model are scaled down: the two sizes modelled stand for     *)
(* 'local' (256 cells) and 'regional' (512 cells), and the river spacing   *)
(* and the minimum river length are scaled with them.                      *)
(***************************************************************************)
SizeLocal == 9
SizeRegional == 13

\* Math.floor(config.width / 50), scaled
RiverSpacing == 6

\* minRiverLength: 15, scaled
MinRiverLength == 2

\* The number of different seeds generateSeed() can return in the model.
NumGenerated == 2

DEFAULT_MAP_CONFIG ==
  [seed |-> <<>>, mapType |-> "island", mapSize |-> "regional", width |-> 512,
   height |-> 512, seaLevel |-> (35 * Scale) \div 100, roughness |-> (6 * Scale) \div 10,
   waterCoverage |-> (4 * Scale) \div 10, forestDensity |-> (5 * Scale) \div 10,
   settlementDensity |-> (3 * Scale) \div 10]

MAP_SIZE_CONFIG ==
  [local |-> [width |-> SizeLocal, height |-> SizeLocal],
   regional |-> [width |-> SizeRegional, height |-> SizeRegional]]

\* { ...DEFAULT_MAP_CONFIG, ...options.config }
Merge(defaults, partial) ==
  [k \in DOMAIN defaults \cup DOMAIN partial |->
     IF k \in DOMAIN partial THEN partial[k] ELSE defaults[k]]

\* generateSeed(): 12 characters chosen with Math.random; the model keeps
\* NumGenerated of the strings it can return.
generateSeed == {[k \in 1..12 |-> 65 + ((i * k) % 26)] : i \in 1..NumGenerated}

\* Variant: the seed is generated whatever the caller passed.
FreshSeed(partial) == generateSeed

\* options.config.seed || generateSeed(): the seeds the run can get.
SeedChoice(partial) ==
  IF "seed" \in DOMAIN partial /\ partial.seed # <<>> THEN {partial.seed} ELSE generateSeed

\* The configurations generateMap is called with: the caller's Partial<MapConfig>.
CallerConfigs ==
  {[seed |-> <<97>>],
   [mapType |-> "continent", mapSize |-> "local"],
   [seed |-> <<98>>, mapType |-> "inland", mapSize |-> "local",
    waterCoverage |-> (15 * Scale) \div 10],
   [seed |-> <<99>>, mapSize |-> "local", seaLevel |-> 0],
   [seed |-> <<97>>, mapSize |-> "local", seaLevel |-> -(Scale \div 10), width |-> 0,
    height |-> -5],
   [seed |-> <<>>, mapType |-> "great-lake", mapSize |-> "local"]}

\* The outputs of a run that the determinism contract names.
Outputs(r) ==
  [heightmap |-> r.heightmap, biomes |-> r.biomes, rivers |-> r.rivers,
   settlements |-> r.settlements]
(***************************************************************************)
(* State.  Each function under study runs as its own state machine; the    *)
(* variables of the machines that are not running keep their idle values.  *)
(***************************************************************************)
VARIABLES
  ropts,      \* generateRivers: the RiverOptions of the call
  rHeightmap, \* options.heightmap
  rMoisture,  \* options.moisture
  rng,        \* the SeededRandom state of the call, between traces
  rivers,     \* rivers accepted so far
  usedCells,  \* cells claimed by accepted rivers
  sources,    \* the source list
  srcPos,     \* position of the for loop in sources
  trace,      \* the state of the traceRiver call in progress
  rpc,        \* "idle", "start", "loop", "trace", "traced", "done"
  traces,     \* history: for each traced source, how its trace ended
  bio,        \* generateBiomes: options, noise, loop position, biomes array
  hgt,        \* generateHeightmap: options, generator, the array, position in the body
  run,        \* generateMap: the caller's options, the merged config, the progress
              \* notifications, the grids and lists of the run, and position
  fn          \* a function called on its own: its arguments, its loop position
              \* and its locals

rvars == <<ropts, rHeightmap, rMoisture, rng, rivers, usedCells, sources, srcPos,
           trace, rpc, traces>>

\* The variables generateRivers leaves alone.
notRivers == <<bio, hgt, run, fn>>

\* The variables generateBiomes leaves alone.
notBiomes == <<rvars, hgt, run, fn>>

\* The variables generateHeightmap leaves alone.
notHeightmap == <<rvars, bio, run, fn>>

\* The variables a function called on its own leaves alone.
notFn == <<rvars, bio, hgt, run>>

vars == <<rvars, bio, hgt, run, fn>>

NoTrace == TraceStart(0, 0, <<<<0, 0>>, <<0, 0>>>>)

\* generateRivers is not running.
RiversIdle ==
  /\ ropts = [seed |-> <<>>]
  /\ rHeightmap = <<>>
  /\ rMoisture = <<>>
  /\ rng = <<<<0, 0>>, <<0, 0>>>>
  /\ rivers = <<>>
  /\ usedCells = {}
  /\ sources = <<>>
  /\ srcPos = 1
  /\ trace = NoTrace
  /\ rpc = "idle"
  /\ traces = <<>>

\* generateBiomes is not running.
BiomesIdle == bio = [pc |-> "idle"]


\* generateHeightmap is not running.
HeightmapIdle == hgt = [pc |-> "idle"]

\* generateMap is not running.
MapIdle == run = [pc |-> "idle"]

\* No function is being called on its own.
FnIdle == fn = [pc |-> "idle"]
(***************************************************************************)
(* generateRivers as a state machine: one step builds the generator and    *)
(* the source list; for each source of the for loop, one step enters       *)
(* traceRiver, one step per iteration of its loop, and one step does the   *)
(* acceptance test; a last step is the flow pass and the return.           *)
(***************************************************************************)
RiversInit ==
  /\ ropts \in RiverOptions
  /\ rHeightmap = Terrain(ropts.terrain, ropts.width, ropts.height)
  /\ rMoisture = MoistureField(ropts.wet, ropts.width, ropts.height)
  /\ rng = <<<<0, 0>>, <<0, 0>>>>
  /\ rivers = <<>>
  /\ usedCells = {}
  /\ sources = <<>>
  /\ srcPos = 1
  /\ trace = NoTrace
  /\ rpc = "start"
  /\ traces = <<>>
  /\ BiomesIdle
  /\ HeightmapIdle
  /\ MapIdle
  /\ FnIdle

\* generateRivers, up to the for loop.
RiversBegin ==
  /\ rpc = "start"
  /\ \E found \in {findRiverSources(ropts.width, ropts.height, rHeightmap, rMoisture,
                                     ropts.seaLevel,
                                     SeededRandom(ropts.seed \o SeedTag.rivers),
                                     ropts.riverCount * 3)} :
       /\ sources' = found[1]
       /\ rng' = found[2]
  /\ rpc' = "loop"
  /\ UNCHANGED <<ropts, rHeightmap, rMoisture, rivers, usedCells, srcPos, trace,
                 traces>>
  /\ UNCHANGED notRivers

\* The for loop takes the next source and calls traceRiver.
RiversPick ==
  /\ rpc = "loop"
  /\ srcPos <= Len(sources)
  /\ Len(rivers) < ropts.riverCount
  /\ trace' = TraceStart(sources[srcPos].x, sources[srcPos].y, rng)
  /\ rpc' = "trace"
  /\ UNCHANGED <<ropts, rHeightmap, rMoisture, rng, rivers, usedCells, sources,
                 srcPos, traces>>
  /\ UNCHANGED notRivers

\* One pass through the loop of traceRiver.
RiversTraceStep ==
  /\ rpc = "trace"
  /\ trace' = traceRiver(trace, ropts.width, ropts.height, rHeightmap,
                         ropts.seaLevel, usedCells)
  /\ rpc' = IF trace'.stop = "" THEN "trace" ELSE "traced"
  /\ UNCHANGED <<ropts, rHeightmap, rMoisture, rng, rivers, usedCells, sources,
                 srcPos, traces>>
  /\ UNCHANGED notRivers

\* Variant: every trace is accepted, whatever its length.
AcceptAny(segments, minRiverLength) == TRUE

\* if (river.segments.length >= minRiverLength)
AcceptRiver(segments, minRiverLength) == Len(segments) >= minRiverLength

\* The rest of the for loop body, once traceRiver has returned.
RiversAccept ==
  /\ rpc = "traced"
  /\ IF AcceptRiver(trace.segments, ropts.minRiverLength)
     THEN \E u \in {uuid(trace.rng)} :
            \E river \in {[id |-> u[1], name |-> "", segments |-> trace.segments]} :
              /\ rivers' = Append(rivers, river)
              /\ usedCells' = usedCells \cup RiverCells(river, ropts.width)
              /\ rng' = u[2]
              /\ traces' = Append(traces, [stop |-> trace.stop, accepted |-> TRUE,
                                           river |-> Len(rivers) + 1])
     ELSE /\ rng' = trace.rng
          /\ traces' = Append(traces, [stop |-> trace.stop, accepted |-> FALSE,
                                       river |-> 0])
          /\ UNCHANGED <<rivers, usedCells>>
  /\ srcPos' = srcPos + 1
  /\ trace' = NoTrace
  /\ rpc' = "loop"
  /\ UNCHANGED <<ropts, rHeightmap, rMoisture, sources>>
  /\ UNCHANGED notRivers

\* The end of the for loop, the flow pass and the return.
RiversFlow ==
  /\ rpc = "loop"
  /\ (srcPos > Len(sources) \/ Len(rivers) >= ropts.riverCount)
  /\ rivers' = [i \in 1..Len(rivers) |-> calculateRiverFlow(rivers[i])]
  /\ rpc' = "done"
  /\ UNCHANGED <<ropts, rHeightmap, rMoisture, rng, usedCells, sources, srcPos,
                 trace, traces>>
  /\ UNCHANGED notRivers

RiversNext ==
  RiversBegin \/ RiversPick \/ RiversTraceStep \/ RiversAccept \/ RiversFlow

(***************************************************************************)
(* generateBiomes as a state machine: one step builds the generator and    *)
(* the noise function, one step per cell of the row-major loops stores the *)
(* cell's id, and a last step returns the array.                           *)
(***************************************************************************)
BiomesInit ==
  /\ \E o \in BiomeOptions :
       bio = [pc |-> "start", opts |-> o,
              heightmap |-> Field(o.elevation, o.width, o.height, o.seaLevel),
              temperature |-> Field(o.temperature, o.width, o.height, o.seaLevel),
              moisture |-> Field(o.moisture, o.width, o.height, o.seaLevel),
              noise |-> <<>>, x |-> 0, y |-> 0,
              biomes |-> [idx \in 0..(o.width * o.height - 1) |-> 0]]
  /\ RiversIdle
  /\ HeightmapIdle
  /\ MapIdle
  /\ FnIdle

\* new Uint8Array, new SeededRandom(seed + '_biomes'), createNoise2D
BiomesBegin ==
  /\ bio.pc = "start"
  /\ bio' = [bio EXCEPT !.pc = "loop",
                        !.noise = createNoise2D(SeededRandom(bio.opts.seed \o SeedTag.biomes))[1]]
  /\ UNCHANGED notBiomes

\* One iteration of the inner loop.
BiomesCell ==
  /\ bio.pc = "loop"
  /\ bio.y < bio.opts.height
  /\ bio' = [bio EXCEPT
               !.biomes[coordToIndex(bio.x, bio.y, bio.opts.width)] =
                 BiomeCell(bio, bio.x, bio.y),
               !.x = IF bio.x + 1 < bio.opts.width THEN bio.x + 1 ELSE 0,
               !.y = IF bio.x + 1 < bio.opts.width THEN bio.y ELSE bio.y + 1]
  /\ UNCHANGED notBiomes

\* return biomes
BiomesReturn ==
  /\ bio.pc = "loop"
  /\ bio.y >= bio.opts.height
  /\ bio' = [bio EXCEPT !.pc = "done"]
  /\ UNCHANGED notBiomes

BiomesNext == BiomesBegin \/ BiomesCell \/ BiomesReturn

(***************************************************************************)
(* generateHeightmap as a state machine: one step per statement of its     *)
(* body.                                                                   *)
(***************************************************************************)
HeightmapInit ==
  /\ \E o \in HeightmapOptions :
       hgt = [pc |-> "start", opts |-> o, rng |-> <<<<0, 0>>, <<0, 0>>>>, heightmap |-> <<>>,
              mask |-> <<>>]
  /\ RiversIdle
  /\ BiomesIdle
  /\ MapIdle
  /\ FnIdle

\* new SeededRandom(seed), createNoise2D, new Float32Array, generateFBM
HeightmapBegin ==
  /\ hgt.pc = "start"
  /\ \E noise \in {createNoise2D(SeededRandom(hgt.opts.seed))} :
       hgt' = [hgt EXCEPT !.pc = "mask", !.rng = noise[2],
                          !.heightmap = generateFBM(hgt.opts.width, hgt.opts.height,
                                                    noise[1], hgt.opts.roughness)]
  /\ UNCHANGED notHeightmap

\* applyLandmassMask; mask keeps, for each cell, the mask the blend was given.
HeightmapMask ==
  /\ hgt.pc = "mask"
  /\ \E masked \in {LandmassLoops(hgt.heightmap, hgt.opts.width, hgt.opts.height,
                                   hgt.opts.mapType, hgt.rng, hgt.opts.waterCoverage)} :
       hgt' = [hgt EXCEPT !.pc = "normalize", !.heightmap = masked.heightmap,
                          !.mask = masked.mask]
  /\ UNCHANGED notHeightmap

\* normalizeHeightmap
HeightmapNormalize ==
  /\ hgt.pc = "normalize"
  /\ hgt' = [hgt EXCEPT !.pc = "cleanup", !.heightmap = normalizeHeightmap(hgt.heightmap)]
  /\ UNCHANGED notHeightmap

\* cleanupArtifacts
HeightmapCleanup ==
  /\ hgt.pc = "cleanup"
  /\ hgt' = [hgt EXCEPT !.pc = "adjust",
                        !.heightmap = cleanupArtifacts(hgt.heightmap, hgt.opts.width,
                                                       hgt.opts.height, hgt.opts.seaLevel)]
  /\ UNCHANGED notHeightmap

\* adjustWaterCoverage, which changes no cell, and the return
HeightmapReturn ==
  /\ hgt.pc = "adjust"
  /\ hgt' = [hgt EXCEPT !.pc = "done"]
  /\ UNCHANGED notHeightmap

HeightmapNext ==
  HeightmapBegin \/ HeightmapMask \/ HeightmapNormalize \/ HeightmapCleanup \/ HeightmapReturn

(***************************************************************************)
(* The moisture spread of generateMoisture on its own, one step per        *)
(* execution of the body of its loops: fn holds the heightmap, the sea     *)
(* level, tempMoisture, the pass and the position of the scan.             *)
(***************************************************************************)
MoistW == 4
MoistH == 4

\* The elevations of the interior cells of the grids given: water, low land
\* and land above seaLevel + 0.3.
MoistLevels == {200, 400, 800}

\* Heightmaps given: a rim of water and land cells, and interior cells of the
\* levels above.
MoistInputs ==
  {[idx \in 0..(MoistW * MoistH - 1) |->
      IF idx % MoistW >= 1 /\ idx % MoistW < MoistW - 1
         /\ idx \div MoistW >= 1 /\ idx \div MoistW < MoistH - 1
      THEN levels[1 + (((idx % MoistW) + (idx \div MoistW)) % 3)]
      ELSE (idx * 37) % 700]
   : levels \in [1..3 -> MoistLevels]}

\* The cell the scan stands on.
MoistIdx ==
  coordToIndex(1 + (fn.k % (fn.width - 2)), 1 + (fn.k \div (fn.width - 2)), fn.width)

\* The water mask, moisture 1 on water, and the copy tempMoisture.
MoistureInit ==
  /\ \E heightmap \in MoistInputs :
       fn = [pc |-> "spread", heightmap |-> heightmap, seaLevel |-> (35 * Scale) \div 100,
             width |-> MoistW, height |-> MoistH,
             tempMoisture |-> [idx \in DOMAIN heightmap |->
                                 IF heightmap[idx] < (35 * Scale) \div 100 THEN Scale ELSE 0],
             pass |-> 0, k |-> 0]
  /\ RiversIdle
  /\ BiomesIdle
  /\ HeightmapIdle
  /\ MapIdle

\* One execution of the body of the loops over y and x of a pass.
MoistureVisit ==
  /\ fn.pc = "spread"
  /\ fn.pass < spreadPasses
  /\ fn' = [fn EXCEPT
              !.tempMoisture = SpreadCell(fn.tempMoisture, MoistIdx, fn.width, fn.heightmap,
                                          fn.seaLevel),
              !.k = IF fn.k + 1 < (fn.width - 2) * (fn.height - 2) THEN fn.k + 1 ELSE 0,
              !.pass = IF fn.k + 1 < (fn.width - 2) * (fn.height - 2) THEN @ ELSE @ + 1]
  /\ UNCHANGED notFn

\* The loop over the passes ends.
MoistureReturn ==
  /\ fn.pc = "spread"
  /\ fn.pass >= spreadPasses
  /\ fn' = [fn EXCEPT !.pc = "spread_done"]
  /\ UNCHANGED notFn

MoistureNext == MoistureVisit \/ MoistureReturn

(***************************************************************************)
(* generateMap as a state machine.  The body runs from one `await report`  *)
(* to the next; a stage that is itself a machine here (generateHeightmap,  *)
(* generateBiomes, generateRivers) is entered by a call step and left by a *)
(* return step, with its own steps in between.  After a run has returned,  *)
(* generateMap is called a second time with the same options, and `first`  *)
(* keeps what the first run returned.                                      *)
(***************************************************************************)
NewRun(options, n, first) ==
  [pc |-> "call", n |-> n, options |-> options, config |-> <<>>, progress |-> <<>>,
   heightmap |-> <<>>, temperature |-> <<>>, moisture |-> <<>>, biomes |-> <<>>,
   rivers |-> <<>>, settlements |-> <<>>, first |-> first, interleaved |-> FALSE]

Init ==
  /\ \E options \in CallerConfigs : run = NewRun(options, 1, <<>>)
  /\ RiversIdle
  /\ BiomesIdle
  /\ HeightmapIdle
  /\ FnIdle

\* A generateMap called without onProgress: nothing is notified.
Unreported(progress, phase, fraction) == progress

\* onProgress?.({ phase, progress, message })
Report(progress, phase, fraction) == Append(progress, [phase |-> phase, progress |-> fraction])

\* The entry of generateMap: the merge with the defaults, the seed, the map
\* size, and the first report.
MapCall ==
  /\ run.pc = "call"
  /\ \E seed \in SeedChoice(run.options) :
       \E merged \in {Merge(DEFAULT_MAP_CONFIG, run.options)} :
         run' = [run EXCEPT !.pc = "heightmap",
                            !.config = [merged EXCEPT
                                          !.seed = seed,
                                          !.width = MAP_SIZE_CONFIG[merged.mapSize].width,
                                          !.height = MAP_SIZE_CONFIG[merged.mapSize].height],
                            !.progress = Report(@, "Heightmap", Scale \div 10)]
  /\ UNCHANGED <<rvars, bio, hgt, fn>>

\* Phase 1: the call of generateHeightmap
MapHeightmapCall ==
  /\ run.pc = "heightmap"
  /\ hgt' = [pc |-> "start",
             opts |-> [width |-> run.config.width, height |-> run.config.height,
                       seed |-> run.config.seed, mapType |-> run.config.mapType,
                       seaLevel |-> run.config.seaLevel, roughness |-> run.config.roughness,
                       waterCoverage |-> run.config.waterCoverage],
             rng |-> <<<<0, 0>>, <<0, 0>>>>, heightmap |-> <<>>, mask |-> <<>>]
  /\ run' = [run EXCEPT !.pc = "heightmap_run"]
  /\ UNCHANGED <<rvars, bio, fn>>

\* generateHeightmap returns; report('Erosion')
MapHeightmapReturn ==
  /\ run.pc = "heightmap_run"
  /\ hgt.pc = "done"
  /\ run' = [run EXCEPT !.pc = "erosion", !.heightmap = hgt.heightmap,
                        !.progress = Report(@, "Erosion", (25 * Scale) \div 100)]
  /\ hgt' = [pc |-> "idle"]
  /\ UNCHANGED <<rvars, bio, fn>>

\* Phase 2: applyErosion, applyThermalErosion; report('Climate')
MapErosion ==
  /\ run.pc = "erosion"
  /\ run' = [run EXCEPT
               !.pc = "climate",
               !.heightmap =
                  applyThermalErosion(
                    applyErosion(run.heightmap, run.config.seed, run.config.width,
                                 run.config.height,
                                 (run.config.width * run.config.height) \div 10),
                    run.config.width, run.config.height, 5),
               !.progress = Report(@, "Climate", (4 * Scale) \div 10)]
  /\ UNCHANGED <<rvars, bio, hgt, fn>>

\* Phase 3: generateClimate; report('Biomes')
MapClimate ==
  /\ run.pc = "climate"
  /\ \E climate \in {generateClimate(run.config.width, run.config.height, run.config.seed,
                                     run.heightmap, run.config.seaLevel)} :
       run' = [run EXCEPT !.pc = "biomes", !.temperature = climate.temperature,
                          !.moisture = climate.moisture,
                          !.progress = Report(@, "Biomes", (5 * Scale) \div 10)]
  /\ UNCHANGED <<rvars, bio, hgt, fn>>

\* Phase 4: the call of generateBiomes
MapBiomesCall ==
  /\ run.pc = "biomes"
  /\ bio' = [pc |-> "start",
             opts |-> [width |-> run.config.width, height |-> run.config.height,
                       seed |-> run.config.seed, seaLevel |-> run.config.seaLevel],
             heightmap |-> run.heightmap, temperature |-> run.temperature,
             moisture |-> run.moisture, noise |-> <<>>, x |-> 0, y |-> 0,
             biomes |-> [idx \in 0..(run.config.width * run.config.height - 1) |-> 0]]
  /\ run' = [run EXCEPT !.pc = "biomes_run"]
  /\ UNCHANGED <<rvars, hgt, fn>>

\* generateBiomes returns; report('Rivers')
MapBiomesReturn ==
  /\ run.pc = "biomes_run"
  /\ bio.pc = "done"
  /\ run' = [run EXCEPT !.pc = "rivers", !.biomes = bio.biomes,
                        !.progress = Report(@, "Rivers", (6 * Scale) \div 10)]
  /\ bio' = [pc |-> "idle"]
  /\ UNCHANGED <<rvars, hgt, fn>>

\* Phase 5: the call of generateRivers
MapRiversCall ==
  /\ run.pc = "rivers"
  /\ ropts' = [width |-> run.config.width, height |-> run.config.height,
               seed |-> run.config.seed, seaLevel |-> run.config.seaLevel,
               riverCount |-> run.config.width \div RiverSpacing,
               minRiverLength |-> MinRiverLength]
  /\ rHeightmap' = run.heightmap
  /\ rMoisture' = run.moisture
  /\ rpc' = "start"
  /\ run' = [run EXCEPT !.pc = "rivers_run"]
  /\ UNCHANGED <<rng, rivers, usedCells, sources, srcPos, trace, traces, bio, hgt, fn>>

\* generateRivers returns; carveRiversIntoHeightmap; report('Settlements')
MapRiversReturn ==
  /\ run.pc = "rivers_run"
  /\ rpc = "done"
  /\ run' = [run EXCEPT !.pc = "settlements", !.rivers = rivers,
                        !.heightmap = carveRiversIntoHeightmap(run.heightmap, rivers,
                                                               run.config.width),
                        !.progress = Report(@, "Settlements", (75 * Scale) \div 100)]
  /\ ropts' = [seed |-> <<>>]
  /\ rHeightmap' = <<>>
  /\ rMoisture' = <<>>
  /\ rng' = <<<<0, 0>>, <<0, 0>>>>
  /\ rivers' = <<>>
  /\ usedCells' = {}
  /\ sources' = <<>>
  /\ srcPos' = 1
  /\ trace' = NoTrace
  /\ rpc' = "idle"
  /\ traces' = <<>>
  /\ UNCHANGED <<bio, hgt, fn>>

\* Phase 6: generateSettlements; report('Names')
MapSettlements ==
  /\ run.pc = "settlements"
  /\ run' = [run EXCEPT
               !.pc = "names",
               !.settlements =
                  generateSettlements(run.config.width, run.config.height, run.config.seed,
                                      run.heightmap, run.moisture, run.biomes, run.rivers,
                                      run.config.settlementDensity),
               !.progress = Report(@, "Names", (9 * Scale) \div 10)]
  /\ UNCHANGED <<rvars, bio, hgt, fn>>

\* Phase 7: applyNames; report('Complete'), whose notification is sent before
\* the return.
MapNames ==
  /\ run.pc = "names"
  /\ \E named \in {applyNames(run.config.seed, run.settlements, run.rivers)} :
       run' = [run EXCEPT !.pc = "done", !.settlements = named.settlements,
                          !.rivers = named.rivers,
                          !.progress = Report(@, "Complete", Scale)]
  /\ UNCHANGED <<rvars, bio, hgt, fn>>

\* await new Promise(resolve => setTimeout(resolve, 10)) in report: the run is
\* suspended until its timer fires, and the event loop runs whatever other
\* task is due (a timer, a click handler that calls the store, another
\* generateMap call); interleaved records that one did.
EventLoopTurn ==
  /\ run.pc \in {"heightmap", "erosion", "climate", "biomes", "rivers", "settlements", "names"}
  /\ ~run.interleaved
  /\ run' = [run EXCEPT !.interleaved = TRUE]
  /\ UNCHANGED <<rvars, bio, hgt, fn>>

\* The caller calls generateMap again with the options of the first call.
MapAgain ==
  /\ run.pc = "done"
  /\ run.n = 1
  /\ run' = NewRun(run.options, 2, Outputs(run))
  /\ UNCHANGED <<rvars, bio, hgt, fn>>

Next ==
  \/ MapCall \/ MapHeightmapCall \/ MapHeightmapReturn \/ MapErosion \/ MapClimate
  \/ MapBiomesCall \/ MapBiomesReturn \/ MapRiversCall \/ MapRiversReturn
  \/ MapSettlements \/ MapNames \/ MapAgain \/ EventLoopTurn
  \/ HeightmapNext \/ BiomesNext \/ RiversNext
(***************************************************************************)
(* The placement loop of generateSettlements on its own, one step per      *)
(* attempt.  fn holds the arguments, the suitability, settlementCount,     *)
(* minDistance, the settlements placed with the generator, and the number  *)
(* of attempts made.                                                       *)
(***************************************************************************)
PlaceW == 9
PlaceH == 9

\* The density options given.
PlaceDensities == {Scale \div 10, (3 * Scale) \div 10, Scale \div 2}

\* Biome grids given, by name: an island of grassland in the ocean, the same
\* with a mountain range on every other column, and beach with snow and
\* mountain rows.
PlaceBiomeAt(kind, x, y) ==
  IF x = 0 \/ y = 0 \/ x = PlaceW - 1 \/ y = PlaceH - 1 THEN BIOME_IDS.ocean
  ELSE CASE kind = "island" -> BIOME_IDS.grassland
         [] kind = "ranges" -> IF x % 4 = 2 THEN BIOME_IDS.mountain ELSE BIOME_IDS.forest
         [] OTHER -> IF y % 4 = 0 THEN BIOME_IDS.snow
                     ELSE IF y % 4 = 2 THEN BIOME_IDS.beach ELSE BIOME_IDS.mountain

PlaceBiomes(kind) ==
  [idx \in 0..(PlaceW * PlaceH - 1) |-> PlaceBiomeAt(kind, idx % PlaceW, idx \div PlaceW)]

\* The heightmap that goes with a biome grid.
PlaceHeightmap(biomes) ==
  [idx \in DOMAIN biomes |->
     IF biomes[idx] = BIOME_IDS.ocean THEN (2 * Scale) \div 10
     ELSE IF biomes[idx] \in {BIOME_IDS.mountain, BIOME_IDS.snow} THEN (8 * Scale) \div 10
     ELSE (4 * Scale) \div 10]

\* The entry of generateSettlements up to the loop.
PlaceInit ==
  /\ \E kind \in {"island", "ranges", "rows"}, density \in PlaceDensities, seed \in Seeds :
       \E biomes \in {PlaceBiomes(kind)} :
         \E heightmap \in {PlaceHeightmap(biomes)} :
           \E count \in {settlementCount(PlaceW, PlaceH, biomes, density)} :
             fn = [pc |-> "place", width |-> PlaceW, height |-> PlaceH, seed |-> seed,
                   heightmap |-> heightmap, biomes |-> biomes, density |-> density,
                   rivers |-> <<>>,
                   moisture |-> [idx \in DOMAIN biomes |-> Scale \div 2],
                   suitability |-> calculateSuitability(PlaceW, PlaceH, heightmap,
                                                        [idx \in DOMAIN biomes |-> Scale \div 2],
                                                        biomes, <<>>),
                   settlementCount |-> count,
                   minDistance |-> ISqrt((PlaceW * PlaceH * Scale * Scale) \div count) \div 2,
                   a |-> [settlements |-> <<>>,
                          rng |-> SeededRandom(seed \o SeedTag.settlements)],
                   attempt |-> 0]
  /\ RiversIdle
  /\ BiomesIdle
  /\ HeightmapIdle
  /\ MapIdle

\* One iteration of the loop.
PlaceAttempt ==
  /\ fn.pc = "place"
  /\ fn.attempt < fn.settlementCount * 10
  /\ Len(fn.a.settlements) < fn.settlementCount
  /\ fn' = [fn EXCEPT
              !.a = PlaceSettlement(fn.a, fn.settlementCount, fn.minDistance, fn.width,
                                    fn.height, fn.suitability, fn.rivers, fn.biomes,
                                    fn.heightmap),
              !.attempt = @ + 1]
  /\ UNCHANGED notFn

\* The loop ends; the sort and the return.
PlaceReturn ==
  /\ fn.pc = "place"
  /\ ~(fn.attempt < fn.settlementCount * 10 /\ Len(fn.a.settlements) < fn.settlementCount)
  /\ fn' = [fn EXCEPT !.pc = "place_done",
                      !.a.settlements = SortByPopulation(fn.a.settlements)]
  /\ UNCHANGED notFn

PlaceNext == PlaceAttempt \/ PlaceReturn
(***************************************************************************)
(* SeededRandom on its own: two generators a and b are built from the same *)
(* seed string; a is called with next() and int(min, max), and b is called *)
(* with the calls a received, in their order.  fn holds the two states and *)
(* what the calls returned.                                                *)
(***************************************************************************)
RandSeedLen == 2
MaxCalls == 3

\* The seed strings given: the strings over 'a' and 'z' up to RandSeedLen long.
RandSeeds == UNION {[1..n -> {97, 122}] : n \in 0..RandSeedLen}

\* The arguments given to int(min, max).
IntArgs == {<<-2, -2>>, <<-2, 0>>, <<5, 11>>}

\* The call of kind op with arguments args on state st: <<value, state>>
RandomCall(st, op, args) ==
  IF op = "next" THEN RngNext(st) ELSE RngInt(st, args[1], args[2])

\* const a = new SeededRandom(seed), b = new SeededRandom(seed)
RandomInit ==
  /\ \E seed \in RandSeeds :
       fn = [pc |-> "random", seed |-> seed, a |-> SeededRandom(seed), b |-> SeededRandom(seed),
             calls |-> <<>>, replayed |-> <<>>]
  /\ RiversIdle
  /\ BiomesIdle
  /\ HeightmapIdle
  /\ MapIdle

\* a.next()
RandomNext ==
  /\ fn.pc = "random"
  /\ Len(fn.calls) < MaxCalls
  /\ \E r \in {RandomCall(fn.a, "next", <<>>)} :
       fn' = [fn EXCEPT !.a = r[2],
                        !.calls = Append(@, [op |-> "next", args |-> <<>>, value |-> r[1]])]
  /\ UNCHANGED notFn

\* a.int(min, max)
RandomInt ==
  /\ fn.pc = "random"
  /\ Len(fn.calls) < MaxCalls
  /\ \E args \in IntArgs :
       \E r \in {RandomCall(fn.a, "int", args)} :
         fn' = [fn EXCEPT !.a = r[2],
                          !.calls = Append(@, [op |-> "int", args |-> args, value |-> r[1]])]
  /\ UNCHANGED notFn

\* b receives the next of the calls a received.
RandomReplay ==
  /\ fn.pc = "random"
  /\ Len(fn.replayed) < Len(fn.calls)
  /\ \E call \in {fn.calls[Len(fn.replayed) + 1]} :
       \E r \in {RandomCall(fn.b, call.op, call.args)} :
         fn' = [fn EXCEPT !.b = r[2],
                          !.replayed = Append(@, [call EXCEPT !.value = r[1]])]
  /\ UNCHANGED notFn

RandomCalls == RandomNext \/ RandomInt \/ RandomReplay
(***************************************************************************)
(* The map store (useMapStore) under calls of generate().  A call runs     *)
(* from one `await` to the next as one task of the event loop; fn holds    *)
(* the fields of the store that generate() sets and, for every call, where *)
(* it stands.  mapData is written as the number of the call that stored    *)
(* it, and null as the string "null".                                      *)
(***************************************************************************)
MaxGenerateCalls == 2

\* The phases generateMap reports before its stages.
StorePhases == <<"Heightmap", "Erosion", "Climate", "Biomes", "Rivers", "Settlements", "Names">>

\* The store as created, no call of generate() made.
StoreInit ==
  /\ fn = [pc |-> "store", mapData |-> "null", isGenerating |-> FALSE,
           generationProgress |-> "null", error |-> "null",
           calls |-> [c \in 1..MaxGenerateCalls |-> [pc |-> "none", phase |-> 0]]]
  /\ RiversIdle
  /\ BiomesIdle
  /\ HeightmapIdle
  /\ MapIdle

\* generate() is called with a configuration generateMap accepts: the three
\* fields are set, generateMap merges the configuration and reports
\* 'Heightmap', and the call waits for the timer of report.
StoreGenerate(c) ==
  /\ fn.pc = "store"
  /\ fn.calls[c].pc = "none"
  /\ \A b \in 1..(c - 1) : fn.calls[b].pc # "none"
  /\ fn' = [fn EXCEPT !.isGenerating = TRUE, !.error = "null",
                      !.generationProgress = StorePhases[1],
                      !.calls[c] = [pc |-> "awaiting", phase |-> 1]]
  /\ UNCHANGED notFn

\* generate() is called with a configuration whose mapSize is not a key of
\* MAP_SIZE_CONFIG: generateMap throws on sizeConfig.width before its first
\* report, and the catch clause runs in the same task.
StoreGenerateFails(c) ==
  /\ fn.pc = "store"
  /\ fn.calls[c].pc = "none"
  /\ \A b \in 1..(c - 1) : fn.calls[b].pc # "none"
  /\ fn' = [fn EXCEPT !.isGenerating = FALSE, !.error = "TypeError",
                      !.generationProgress = "null",
                      !.calls[c] = [pc |-> "failed", phase |-> 0]]
  /\ UNCHANGED notFn

\* The timer of a call fires: the stage of its phase runs and the next phase
\* is reported.
StoreStage(c) ==
  /\ fn.pc = "store"
  /\ fn.calls[c].pc = "awaiting"
  /\ fn.calls[c].phase < Len(StorePhases)
  /\ fn' = [fn EXCEPT !.generationProgress = StorePhases[fn.calls[c].phase + 1],
                      !.calls[c].phase = @ + 1]
  /\ UNCHANGED notFn

\* The timer of a call in its last phase fires: the names are applied,
\* 'Complete' is reported, generateMap returns and generate() stores the map.
StoreComplete(c) ==
  /\ fn.pc = "store"
  /\ fn.calls[c].pc = "awaiting"
  /\ fn.calls[c].phase = Len(StorePhases)
  /\ fn' = [fn EXCEPT !.mapData = c, !.isGenerating = FALSE, !.generationProgress = "null",
                      !.calls[c] = [pc |-> "stored", phase |-> Len(StorePhases)]]
  /\ UNCHANGED notFn

StoreNext ==
  \E c \in 1..MaxGenerateCalls :
    StoreGenerate(c) \/ StoreGenerateFails(c) \/ StoreStage(c) \/ StoreComplete(c)
(***************************************************************************)
(* applyThermalErosion called on its own, one step per execution of the    *)
(* body of its loops: fn holds the heightmap given, the copy `result`, the *)
(* iteration and the position of the scan.                                 *)
(***************************************************************************)
ThermW == 4
ThermH == 4
ThermIterations == 2

\* The heights of the interior cells of the grids given.
ThermLevels == {Scale, 903, 550, 120}

\* Heightmaps given to applyThermalErosion: a low rim and interior cells of
\* the levels above.
ThermInputs ==
  {[idx \in 0..(ThermW * ThermH - 1) |->
      IF idx % ThermW >= 1 /\ idx % ThermW < ThermW - 1
         /\ idx \div ThermW >= 1 /\ idx \div ThermW < ThermH - 1
      THEN levels[1 + (((idx % ThermW) + (idx \div ThermW)) % 3)]
      ELSE (idx * 37) % 400]
   : levels \in [1..3 -> ThermLevels]}

\* The cell the scan stands on.
ThermIdx ==
  coordToIndex(1 + (fn.k % (fn.width - 2)), 1 + (fn.k \div (fn.width - 2)), fn.width)

\* const result = new Float32Array(heightmap)
ThermalInit ==
  /\ \E heightmap \in ThermInputs :
       fn = [pc |-> "thermal", heightmap |-> heightmap, result |-> heightmap,
             width |-> ThermW, height |-> ThermH, iterations |-> ThermIterations,
             iter |-> 0, k |-> 0]
  /\ RiversIdle
  /\ BiomesIdle
  /\ HeightmapIdle
  /\ MapIdle

\* One execution of the body of the loops over y and x.
ThermalVisit ==
  /\ fn.pc = "thermal"
  /\ fn.iter < fn.iterations
  /\ fn' = [fn EXCEPT
              !.result = ThermalCell(fn.result, ThermIdx, fn.width),
              !.k = IF fn.k + 1 < (fn.width - 2) * (fn.height - 2) THEN fn.k + 1 ELSE 0,
              !.iter = IF fn.k + 1 < (fn.width - 2) * (fn.height - 2) THEN @ ELSE @ + 1]
  /\ UNCHANGED notFn

\* return result
ThermalReturn ==
  /\ fn.pc = "thermal"
  /\ fn.iter >= fn.iterations
  /\ fn' = [fn EXCEPT !.pc = "thermal_done"]
  /\ UNCHANGED notFn

ThermalNext == ThermalVisit \/ ThermalReturn
(***************************************************************************)
(* Specifications.                                                         *)
(***************************************************************************)
SpecRivers == RiversInit /\ [][RiversNext]_vars

SpecBiomes == BiomesInit /\ [][BiomesNext]_vars

SpecHeightmap == HeightmapInit /\ [][HeightmapNext]_vars

Spec == Init /\ [][Next]_vars

SpecThermal == ThermalInit /\ [][ThermalNext]_vars

SpecMoisture == MoistureInit /\ [][MoistureNext]_vars

SpecRandom == RandomInit /\ [][RandomCalls]_vars

SpecPlacement == PlaceInit /\ [][PlaceNext]_vars

SpecStore == StoreInit /\ [][StoreNext]_vars
(***************************************************************************)
(* Properties of generateRivers.                                           *)
(***************************************************************************)
RiverIds == 1..Len(rivers)

\* The cell of sample i of river r, as <<x, y>> and as an index.
SampleXY(r, i) == <<CellOf(rivers[r].segments[i].x), CellOf(rivers[r].segments[i].y)>>
SampleIdx(r, i) == SegCell(rivers[r].segments[i], ropts.width)
LastIdx(r) == SampleIdx(r, Len(rivers[r].segments))

\* The entry of the history for river r.
TraceOf(r) == CHOOSE k \in 1..Len(traces) : traces[k].river = r

\* C6 as stated: no grid cell is claimed by two different accepted rivers, final
\* samples included: the cell sets of any two distinct rivers are disjoint.
C6_CellsDisjoint ==
  \A r1, r2 \in RiverIds :
    r1 # r2 => RiverCells(rivers[r1], ropts.width)
               \cap RiverCells(rivers[r2], ropts.width) = {}

\* C6 amended: two distinct accepted rivers share no cell at or above sea level;
\* a cell they share is below sea level and is the final sample of both.
C6_LandCellsDisjoint ==
  \A r1, r2 \in RiverIds :
    r1 # r2 =>
      \A c \in RiverCells(rivers[r1], ropts.width)
               \cap RiverCells(rivers[r2], ropts.width) :
        /\ rHeightmap[c] < ropts.seaLevel
        /\ c = LastIdx(r1)
        /\ c = LastIdx(r2)
        /\ \A i \in 1..(Len(rivers[r1].segments) - 1) : SampleIdx(r1, i) # c
        /\ \A i \in 1..(Len(rivers[r2].segments) - 1) : SampleIdx(r2, i) # c

\* Two rivers were returned, one of them cut short next to the other, and two
\* returned rivers end in the same ocean cell.
C6_Witness ==
  /\ rpc = "done"
  /\ \E r1, r2 \in RiverIds : r1 # r2 /\ LastIdx(r1) = LastIdx(r2)
                              /\ Len(rivers[r1].segments) > 1
                              /\ Len(rivers[r2].segments) > 1

\* C7 as stated: in every accepted river the cells of consecutive samples differ
\* by at most 1 in x and at most 1 in y.
C7_ConsecutiveAdjacent ==
  \A r \in RiverIds :
    \A i \in 1..(Len(rivers[r].segments) - 1) :
      /\ Abs(SampleXY(r, i + 1)[1] - SampleXY(r, i)[1]) <= 1
      /\ Abs(SampleXY(r, i + 1)[2] - SampleXY(r, i)[2]) <= 1

C9_SimplePath ==
  \A r \in RiverIds :
    \A i, j \in 1..Len(rivers[r].segments) :
      i # j => SampleIdx(r, i) # SampleIdx(r, j)

\* C10: at most riverCount rivers are returned, at most 3 * riverCount sources
\* are tried, and every river has at least minRiverLength and at most
\* width + height samples.
C10_Counts ==
  /\ Len(rivers) <= ropts.riverCount
  /\ Len(sources) <= 3 * ropts.riverCount
  /\ Len(traces) <= 3 * ropts.riverCount
  /\ srcPos <= Len(sources) + 1
  /\ \A r \in RiverIds :
       /\ Len(rivers[r].segments) >= ropts.minRiverLength
       /\ Len(rivers[r].segments) <= ropts.width + ropts.height

\* generateRivers returned riverCount rivers after discarding a trace that was
\* shorter than minRiverLength.
C10_Witness ==
  /\ rpc = "done"
  /\ Len(rivers) = ropts.riverCount
  /\ Len(traces) > Len(rivers)
  /\ \E k \in 1..Len(traces) : ~traces[k].accepted


\* C18: the flow values of a returned river increase linearly along its path
\* from 0.3 at the first sample to 1.0 at the last, and each lies in (0,1].
C18_FlowLinearToOne ==
  rpc = "done" =>
    \A r \in RiverIds :
      /\ rivers[r].segments[1].flow = (3 * Scale) \div 10
      /\ rivers[r].segments[Len(rivers[r].segments)].flow = Scale
      /\ \A i \in 1..Len(rivers[r].segments) :
           /\ rivers[r].segments[i].flow > 0
           /\ rivers[r].segments[i].flow <= Scale
           /\ i > 1 => rivers[r].segments[i - 1].flow < rivers[r].segments[i].flow

\* The cell the trace in progress stands on.
TraceX == CellOf(trace.x)
TraceY == CellOf(trace.y)
TraceIdx == coordToIndex(TraceX, TraceY, ropts.width)

\* The next step of the trace in progress is an escape: the loop goes on, the
\* cell is inside the frame, above sea level and not claimed, and none of its
\* 8 neighbours is strictly lower.
AtLocalMinimum ==
  /\ rpc = "trace"
  /\ trace.step < ropts.width + ropts.height
  /\ TraceX >= 1 /\ TraceX < ropts.width - 1
  /\ TraceY >= 1 /\ TraceY < ropts.height - 1
  /\ ~ReachedOcean(rHeightmap[TraceIdx], ropts.seaLevel)
  /\ ~Collides(TraceIdx, trace.lastIdx, usedCells)
  /\ \A dx, dy \in {-1, 0, 1} :
       rHeightmap[coordToIndex(TraceX + dx, TraceY + dy, ropts.width)] >= rHeightmap[TraceIdx]

\* The number of 4-neighbour moves from the trace's cell to the cell idx.
MovesTo(idx) == Abs((idx % ropts.width) - TraceX) + Abs((idx \div ropts.width) - TraceY)

\* The cells within maxDepth moves of the trace's cell that are strictly lower
\* than it or below sea level.
LowerWithinDepth ==
  {idx \in DOMAIN rHeightmap :
     /\ MovesTo(idx) <= maxDepth
     /\ \/ rHeightmap[idx] < rHeightmap[TraceIdx]
        \/ rHeightmap[idx] < ropts.seaLevel}

\* The cells within maxDepth moves of the trace's cell that are at or below its
\* elevation or below sea level.
AtOrBelowWithinDepth ==
  {idx \in DOMAIN rHeightmap :
     /\ MovesTo(idx) <= maxDepth
     /\ \/ rHeightmap[idx] <= rHeightmap[TraceIdx]
        \/ rHeightmap[idx] < ropts.seaLevel}

\* The step abandons the trace if targets is empty and otherwise moves it to
\* the centre of none but a nearest cell of targets.
EscapesTo(targets) ==
  IF targets = {} THEN trace'.stop = "stuck"
  ELSE /\ trace'.stop = ""
       /\ \E idx \in targets :
            /\ trace'.x = (idx % ropts.width) * Scale
            /\ trace'.y = (idx \div ropts.width) * Scale
            /\ \A other \in targets : MovesTo(idx) <= MovesTo(other)

\* C19 (as the code has it): at a local minimum the trace jumps to a nearest
\* cell, within 20 moves over 4-neighbours, that is strictly lower than the
\* local minimum or below sea level, and it is abandoned exactly when there is
\* no such cell within 20 moves.
C19_EscapeToStrictlyLower == [][AtLocalMinimum => EscapesTo(LowerWithinDepth)]_vars

\* C19 (as the spec has it): at a local minimum the trace jumps to the nearest
\* cell, within 20 moves over 4-neighbours, at or below the elevation of the
\* local minimum or below sea level, and it is abandoned exactly when there is
\* no such cell within 20 moves.
C19_EscapeToAtOrBelow == [][AtLocalMinimum => EscapesTo(AtOrBelowWithinDepth)]_vars

\* A trace has just jumped from a local minimum to a strictly lower cell exactly
\* maxDepth moves away.
C19_Witness ==
  /\ rpc = "trace"
  /\ trace.lastIdx >= 0
  /\ MovesTo(trace.lastIdx) = maxDepth
  /\ rHeightmap[TraceIdx] < rHeightmap[trace.lastIdx]
(***************************************************************************)
(* Properties of generateBiomes.                                           *)
(***************************************************************************)
\* The cells the loops of generateBiomes have passed.
BiomeCellsDone ==
  IF bio.pc \in {"loop", "done"}
  THEN {idx \in DOMAIN bio.biomes : idx < coordToIndex(bio.x, bio.y, bio.opts.width)}
  ELSE {}

\* C4: for every classified cell, on the heightmap generateBiomes was given,
\* elevation < seaLevel holds exactly when the cell's biome id is ocean (0).
C4_OceanIffBelowSea ==
  \A idx \in BiomeCellsDone :
    (bio.heightmap[idx] < bio.opts.seaLevel) <=> (bio.biomes[idx] = BIOME_IDS.ocean)

\* generateBiomes has returned a grid that holds an ocean cell, a cell exactly at
\* sea level and a cell whose temperature the jitter moved.
C4_Witness ==
  /\ bio.pc = "done"
  /\ \E idx \in BiomeCellsDone : bio.biomes[idx] = BIOME_IDS.ocean
  /\ \E idx \in BiomeCellsDone :
       bio.heightmap[idx] = bio.opts.seaLevel /\ bio.biomes[idx] # BIOME_IDS.ocean
  /\ \E idx \in BiomeCellsDone :
       Jitter08(noise2D(bio.noise, ((idx % bio.opts.width) * Scale) \div 60,
                        ((idx \div bio.opts.width) * Scale) \div 60)) # 0


\* What classifyBiome was given for the cell idx.
InputsOf(idx) == BiomeInputs(bio, idx % bio.opts.width, idx \div bio.opts.width)

\* The ids the temperature and moisture bands are said to return.
BandIds ==
  {BIOME_IDS.tundra, BIOME_IDS.grassland, BIOME_IDS.forest, BIOME_IDS.rainforest,
   BIOME_IDS.desert, BIOME_IDS.swamp}

\* The cell is not ocean, not beach and not above 0.7.
LowLand(c) ==
  /\ c.elevation >= bio.opts.seaLevel
  /\ c.elevation >= c.beachThreshold
  /\ c.elevation <= (7 * Scale) \div 10

\* C16: every classified cell holds exactly the id of the first rule that
\* applies to it, in the order ocean (elevation < seaLevel), beach (elevation
\* < beach threshold), snow (elevation > 0.85, or elevation > 0.7 with
\* temperature < 0.2), mountain (elevation > 0.7), and only then a
\* temperature/moisture band; the id is one of the 11 declared, and
\* classifying the cell again on the same inputs gives the id stored.
C16_RuleOrder ==
  \A idx \in BiomeCellsDone :
    \E c \in {InputsOf(idx)} : \E id \in {bio.biomes[idx]} :
      /\ id \in 0..10
      /\ id = BiomeCell(bio, idx % bio.opts.width, idx \div bio.opts.width)
      /\ IF c.elevation < bio.opts.seaLevel THEN id = BIOME_IDS.ocean
         ELSE IF c.elevation < c.beachThreshold THEN id = BIOME_IDS.beach
         ELSE IF c.elevation > (85 * Scale) \div 100
                 \/ (c.elevation > (7 * Scale) \div 10 /\ c.temp < (2 * Scale) \div 10)
         THEN id = BIOME_IDS.snow
         ELSE IF c.elevation > (7 * Scale) \div 10 THEN id = BIOME_IDS.mountain
         ELSE id \notin {BIOME_IDS.ocean, BIOME_IDS.beach, BIOME_IDS.mountain}

\* generateBiomes has returned a grid with a cold cell above 0.7 (snow by
\* temperature), a warmer cell above 0.7 (mountain) and a cell left to the
\* temperature and moisture bands.
C16_Witness ==
  /\ bio.pc = "done"
  /\ \E idx \in BiomeCellsDone : \E c \in {InputsOf(idx)} :
       /\ c.elevation > (7 * Scale) \div 10
       /\ c.elevation <= (85 * Scale) \div 100
       /\ c.temp < (2 * Scale) \div 10
       /\ bio.biomes[idx] = BIOME_IDS.snow
  /\ \E idx \in BiomeCellsDone : bio.biomes[idx] = BIOME_IDS.mountain
  /\ \E idx \in BiomeCellsDone : LowLand(InputsOf(idx))

\* Swamp is stored only for a wet (moisture > 0.7), warm (temperature >= 0.4)
\* cell below seaLevel + 0.1.
SwampOnlyWetWarmLow ==
  \A idx \in BiomeCellsDone : \E c \in {InputsOf(idx)} :
    bio.biomes[idx] = BIOME_IDS.swamp
      => /\ c.moist > (7 * Scale) \div 10
         /\ c.temp >= (4 * Scale) \div 10
         /\ c.elevation < bio.opts.seaLevel + Scale \div 10

\* C17 (as the code has it): a cell that is not ocean, not beach and not above
\* 0.7 is tundra, grassland, forest, rainforest, desert or swamp, or snow when
\* it is cold (temperature < 0.2) and moisture > 0.5; swamp is stored only for
\* wet, warm cells below seaLevel + 0.1.
C17_BandsOrColdSnow ==
  /\ SwampOnlyWetWarmLow
  /\ \A idx \in BiomeCellsDone : \E c \in {InputsOf(idx)} :
       LowLand(c) =>
         \/ bio.biomes[idx] \in BandIds
         \/ /\ bio.biomes[idx] = BIOME_IDS.snow
            /\ c.temp < (2 * Scale) \div 10
            /\ c.moist > (5 * Scale) \div 10

\* C17 (as the spec has it): a cell that is not ocean, not beach and not above
\* 0.7 is tundra, grassland, forest, rainforest, desert or swamp; swamp is
\* stored only for wet, warm cells below seaLevel + 0.1.
C17_BandsOnly ==
  /\ SwampOnlyWetWarmLow
  /\ \A idx \in BiomeCellsDone : LowLand(InputsOf(idx)) => bio.biomes[idx] \in BandIds

\* generateBiomes has returned a grid with a swamp and with a wet, warm cell
\* that is no swamp because it lies at seaLevel + 0.1 or above.
C17_Witness ==
  /\ bio.pc = "done"
  /\ \E idx \in BiomeCellsDone : bio.biomes[idx] = BIOME_IDS.swamp
  /\ \E idx \in BiomeCellsDone : \E c \in {InputsOf(idx)} :
       /\ LowLand(c)
       /\ c.moist > (8 * Scale) \div 10
       /\ c.temp >= (4 * Scale) \div 10
       /\ c.elevation >= bio.opts.seaLevel + Scale \div 10

\* Values of elevation, temperature and moisture over [0, 1], the thresholds
\* of classifyBiome and their neighbours among them.
ClassifierGrid == {0, 199, 200, 350, 399, 400, 401, 449, 450, 699, 700, 701, 801, 850, 851, Scale}

\* C27: classifyBiome returns an id of 0..9 for every input, and every cell of
\* a biome grid holds an id of 0..9: lake (10) is declared and never stored.
C27_NoLake ==
  bio.pc # "idle" =>
    /\ \A idx \in DOMAIN bio.biomes :
         bio.biomes[idx] \in 0..9 /\ bio.biomes[idx] # BIOME_IDS.lake
    /\ bio.pc = "done" =>
         \A elevation \in ClassifierGrid, temperature \in ClassifierGrid, moisture \in ClassifierGrid :
           \A beachLevel \in {bio.opts.seaLevel + 10, bio.opts.seaLevel + 30} :
             classifyBiome(elevation, temperature, moisture, bio.opts.seaLevel, beachLevel,
                           (7 * Scale) \div 10, (85 * Scale) \div 100) \in 0..9

\* generateBiomes has returned a grid with water, swamp and at least six
\* different ids.
C27_Witness ==
  /\ bio.pc = "done"
  /\ \E idx \in BiomeCellsDone : bio.biomes[idx] = BIOME_IDS.swamp
  /\ \E idx \in BiomeCellsDone : bio.heightmap[idx] < bio.opts.seaLevel /\ bio.heightmap[idx] > 0
  /\ Cardinality({bio.biomes[idx] : idx \in BiomeCellsDone}) >= 6
  /\ Cardinality({BIOME_IDS[b] : b \in DOMAIN BIOME_IDS}) = 11
(***************************************************************************)
(* Properties of carveRiversIntoHeightmap as generateMap calls it.         *)
(***************************************************************************)
\* generateRivers has returned and the run is about to carve.
AboutToCarve == run.pc = "rivers_run" /\ rpc = "done"

\* The samples <<river, sample>> of the rivers returned that lie in cell idx.
SamplesIn(idx) ==
  {s \in UNION {{<<i, j>> : j \in 1..Len(rivers[i].segments)} : i \in 1..Len(rivers)} :
     SegCell(rivers[s[1]].segments[s[2]], run.config.width) = idx}

\* carveDepth * flow of a sample
CarveOf(s) == (((2 * Scale) \div 100) * rivers[s[1]].segments[s[2]].flow) \div Scale

\* C25: the carving lowers every cell that holds a river sample by flow *
\* carveDepth of that sample, floored at 0, raises no cell and leaves the
\* cells that hold no sample as they were.
C25_CarvedOncePerCell ==
  [][AboutToCarve =>
       \A idx \in DOMAIN run.heightmap :
         /\ run.heightmap'[idx] <= run.heightmap[idx]
         /\ IF SamplesIn(idx) = {}
            THEN run.heightmap'[idx] = run.heightmap[idx]
            ELSE \E s \in SamplesIn(idx) :
                   run.heightmap'[idx] = Max2(0, run.heightmap[idx] - CarveOf(s))]_vars
(***************************************************************************)
(* Properties of generateHeightmap.                                        *)
(***************************************************************************)
\* C3: every cell of the array generateHeightmap returns is in [0, 1], for
\* every map type and every seaLevel, roughness and waterCoverage in [0, 1].
C3_ReturnedInUnitRange ==
  hgt.pc = "done" =>
    \A idx \in DOMAIN hgt.heightmap : hgt.heightmap[idx] >= 0 /\ hgt.heightmap[idx] <= Scale


\* The blend has just run.
Blended == hgt.pc = "normalize"

\* C20: after the blend, a cell whose mask was below 0.3 holds
\* (mask / 0.3) * seaLevel * 0.95 for the configured seaLevel and lies
\* strictly below the configured seaLevel, and a cell whose mask was 0.3 or
\* more lies at or above the configured seaLevel.
C20_BlendAroundSeaLevel ==
  Blended =>
    \A idx \in DOMAIN hgt.heightmap :
      IF hgt.mask[idx] < (3 * Scale) \div 10
      THEN /\ hgt.heightmap[idx]
                = (((FloorDiv(hgt.mask[idx] * Scale, (3 * Scale) \div 10) * hgt.opts.seaLevel)
                    \div Scale) * 95) \div 100
           /\ hgt.heightmap[idx] < hgt.opts.seaLevel
      ELSE hgt.heightmap[idx] >= hgt.opts.seaLevel

\* The cell idx is not on the border of the grid.
Interior(idx) ==
  /\ idx % hgt.opts.width >= 1 /\ idx % hgt.opts.width < hgt.opts.width - 1
  /\ idx \div hgt.opts.width >= 1 /\ idx \div hgt.opts.width < hgt.opts.height - 1

\* The number of 4-neighbours of the interior cell idx that are land now.
LandNeighbours(idx) ==
  Cardinality({nIdx \in {idx + 1, idx - 1, idx + hgt.opts.width, idx - hgt.opts.width} :
                 hgt.heightmap[nIdx] > hgt.opts.seaLevel})

\* The interior cell idx is an island of the grid as it is now: land with at
\* most one land 4-neighbour.
Speck(idx) == Interior(idx) /\ hgt.heightmap[idx] > hgt.opts.seaLevel /\ LandNeighbours(idx) <= 1

\* The interior cell idx is a hole of the grid as it is now: water with at
\* least three land 4-neighbours.
Hole(idx) == Interior(idx) /\ hgt.heightmap[idx] <= hgt.opts.seaLevel /\ LandNeighbours(idx) >= 3

\* C21: the despeckle step sets every island of the grid it starts from to
\* seaLevel - 0.01 and every hole of that grid to seaLevel + 0.01, and leaves
\* every other cell, the border cells included, as it was.
C21_DespeckleOnePass ==
  [][hgt.pc = "cleanup" =>
       \A idx \in DOMAIN hgt.heightmap :
         hgt.heightmap'[idx] = IF Speck(idx) THEN hgt.opts.seaLevel - Scale \div 100
                               ELSE IF Hole(idx) THEN hgt.opts.seaLevel + Scale \div 100
                               ELSE hgt.heightmap[idx]]_vars

\* The despeckle step is about to run on a grid with an island next to a hole:
\* each is decided on the other as it was.
C21_Witness ==
  /\ hgt.pc = "cleanup"
  /\ \E idx \in DOMAIN hgt.heightmap :
       Speck(idx) /\ \E nIdx \in {idx + 1, idx + hgt.opts.width} : Hole(nIdx)
(***************************************************************************)
(* Properties of the moisture spread.                                      *)
(***************************************************************************)
\* The greatest moisture among the 4-neighbours of the cell the scan stands on.
MaxNeighbour ==
  CHOOSE m \in {fn.tempMoisture[n] : n \in {MoistIdx - 1, MoistIdx + 1, MoistIdx - fn.width,
                                            MoistIdx + fn.width}} :
    \A n \in {MoistIdx - 1, MoistIdx + 1, MoistIdx - fn.width, MoistIdx + fn.width} :
      m >= fn.tempMoisture[n]

\* The factor of the cell the scan stands on, in hundredths.
Penalty == IF fn.heightmap[MoistIdx] > fn.seaLevel + (3 * Scale) \div 10 THEN 70 ELSE 92

\* The last cell of the row-major scan of the interior.
LastOfScan == (fn.width - 2) * (fn.height - 2) - 1

\* C23: the spread runs exactly 30 passes, each a whole row-major scan of the
\* interior; a visit of a land cell stores max(own, max of the 4 neighbours *
\* f), f = 0.7 above seaLevel + 0.3 and 0.92 otherwise, and changes no other
\* cell; water cells keep 1, no cell decreases, every value stays in [0,1].
C23_SpreadPasses ==
  [][fn.pc = "spread" =>
       IF fn'.pc = "spread_done"
       THEN /\ fn.pass = 30
            /\ fn.k = 0
            /\ fn.tempMoisture = spreadMoisture(fn.width, fn.height, fn.heightmap, fn.seaLevel)
       ELSE /\ fn.pass < 30
            /\ fn'.k = (IF fn.k = LastOfScan THEN 0 ELSE fn.k + 1)
            /\ fn'.pass = (IF fn.k = LastOfScan THEN fn.pass + 1 ELSE fn.pass)
            /\ \A idx \in DOMAIN fn.tempMoisture :
                 /\ fn.tempMoisture'[idx] >= fn.tempMoisture[idx]
                 /\ fn.tempMoisture'[idx] >= 0
                 /\ fn.tempMoisture'[idx] <= Scale
                 /\ fn.heightmap[idx] < fn.seaLevel => fn.tempMoisture'[idx] = Scale
                 /\ idx # MoistIdx => fn.tempMoisture'[idx] = fn.tempMoisture[idx]
            /\ fn.tempMoisture'[MoistIdx]
                 = IF fn.heightmap[MoistIdx] >= fn.seaLevel
                   THEN Max2(fn.tempMoisture[MoistIdx], (MaxNeighbour * Penalty) \div 100)
                   ELSE fn.tempMoisture[MoistIdx]]_vars

\* The spread has ended on a grid where moisture reached a low land cell and a
\* land cell above seaLevel + 0.3, and where a land cell stayed drier than the
\* water next to it allows in one pass.
C23_Witness ==
  /\ fn.pc = "spread_done"
  /\ \E idx \in DOMAIN fn.heightmap :
       /\ fn.heightmap[idx] >= fn.seaLevel
       /\ fn.heightmap[idx] <= fn.seaLevel + (3 * Scale) \div 10
       /\ fn.tempMoisture[idx] > 0 /\ fn.tempMoisture[idx] < Scale
  /\ \E idx \in DOMAIN fn.heightmap :
       /\ fn.heightmap[idx] > fn.seaLevel + (3 * Scale) \div 10
       /\ fn.tempMoisture[idx] > 0 /\ fn.tempMoisture[idx] < Scale

(***************************************************************************)
(* generateMap: determinism, ranges, configuration.                        *)
(***************************************************************************)
\* The caller passed a seed string that is not empty.
SeedGiven(options) == "seed" \in DOMAIN options /\ options.seed # <<>>

InUnitRange(grid) == \A idx \in DOMAIN grid : grid[idx] >= 0 /\ grid[idx] <= Scale

\* C2: from the end of the erosion phase on, and so in the MapData returned,
\* every cell of the elevation, temperature and moisture grids is in [0, 1]
\* and every cell of the biome grid is an id in 0..10.
C2_GridsInRange ==
  run.pc \in {"climate", "biomes", "biomes_run", "rivers", "rivers_run", "settlements",
              "names", "done"}
    => /\ InUnitRange(run.heightmap)
       /\ InUnitRange(run.temperature)
       /\ InUnitRange(run.moisture)
       /\ \A idx \in DOMAIN run.biomes : run.biomes[idx] \in 0..10

\* A run has returned whose rivers were carved into the heightmap, down to the
\* floor 0 on one cell at least.
C2_Witness ==
  /\ run.pc = "done"
  /\ \E i \in 1..Len(run.rivers) : \E j \in 1..Len(run.rivers[i].segments) :
       run.heightmap[SegCell(run.rivers[i].segments[j], run.config.width)] = 0

\* The configuration errors the specification names: a dimension that is not
\* positive, a sea level or a water coverage outside [0, 1].
InvalidConfig(config) ==
  \/ config.width <= 0
  \/ config.height <= 0
  \/ config.seaLevel < 0 \/ config.seaLevel > Scale
  \/ config.waterCoverage < 0 \/ config.waterCoverage > Scale

\* C5: a call of generateMap with an invalid configuration does not get past
\* its entry: no progress notification is sent and no stage runs.
C5_InvalidConfigStopsAtEntry ==
  InvalidConfig(Merge(DEFAULT_MAP_CONFIG, run.options))
    => (run.pc = "call" /\ run.progress = <<>> /\ HeightmapIdle)

(***************************************************************************)
(* The progress channel of generateMap                                     *)
(***************************************************************************)
PhaseLabels == <<"Heightmap", "Erosion", "Climate", "Biomes", "Rivers", "Settlements", "Names">>

\* The notifications of a whole run, in the order generateMap sends them.
Reports ==
  <<[phase |-> "Heightmap", progress |-> Scale \div 10],
    [phase |-> "Erosion", progress |-> (25 * Scale) \div 100],
    [phase |-> "Climate", progress |-> (4 * Scale) \div 10],
    [phase |-> "Biomes", progress |-> Scale \div 2],
    [phase |-> "Rivers", progress |-> (6 * Scale) \div 10],
    [phase |-> "Settlements", progress |-> (75 * Scale) \div 100],
    [phase |-> "Names", progress |-> (9 * Scale) \div 10],
    [phase |-> "Complete", progress |-> Scale]>>

\* How many notifications have been sent when the run stands at pc: the
\* notification of a stage is the last one sent while the stage is about to
\* run or running.
Reported ==
  [call |-> 0, heightmap |-> 1, heightmap_run |-> 1, erosion |-> 2, climate |-> 3,
   biomes |-> 4, biomes_run |-> 4, rivers |-> 5, rivers_run |-> 5, settlements |-> 6,
   names |-> 7, done |-> 8]

\* C14 (as the code has it): the notifications of a run are, in this order,
\* Heightmap, Erosion, Climate, Biomes, Rivers, Settlements, Names and then
\* Complete, with the fractions 0.1, 0.25, 0.4, 0.5, 0.6, 0.75, 0.9 and 1; the
\* notification of a stage is sent before the stage runs and Complete after
\* the Names stage has run.
C14_ReportsInOrder ==
  /\ run.progress = SubSeq(Reports, 1, Reported[run.pc])
  /\ \A i \in 1..Len(run.progress) :
       /\ run.progress[i].progress >= 0
       /\ run.progress[i].progress <= Scale
       /\ i > 1 => run.progress[i - 1].progress <= run.progress[i].progress

\* C14 (as the spec has it): every notification carries one of the seven
\* phase labels and a fraction in [0,1], the labels arrive in pipeline order
\* and the fractions never decrease.
C14_SevenLabels ==
  \A i \in 1..Len(run.progress) :
    /\ i <= Len(PhaseLabels)
    /\ run.progress[i].phase = PhaseLabels[i]
    /\ run.progress[i].progress >= 0
    /\ run.progress[i].progress <= Scale
    /\ i > 1 => run.progress[i - 1].progress <= run.progress[i].progress

\* The Names stage is about to run: seven notifications have been sent, the
\* settlements are placed and none is named.
C14_Witness ==
  /\ run.pc = "names"
  /\ Len(run.progress) = 7
  /\ Len(run.settlements) > 0
  /\ \A i \in 1..Len(run.settlements) : run.settlements[i].name = ""

\* C15: no other task runs between two stages of a generateMap run: once the
\* first stage has run and until the last has, no step is another task's.
C15_NoTaskBetweenStages ==
  [][run.pc \in {"erosion", "climate", "biomes", "rivers", "settlements", "names"}
       => run.interleaved' = run.interleaved]_vars

\* The stages at which the climate grids, and the biome grid, have been derived
\* and the run has not returned.
ClimateDerived ==
  run.pc \in {"biomes", "biomes_run", "rivers", "rivers_run", "settlements", "names"}

BiomesDerived == run.pc \in {"rivers", "rivers_run", "settlements", "names"}

\* The two lists hold the same records in the same order, the name fields aside.
SameButName(before, after) ==
  /\ Len(after) = Len(before)
  /\ \A i \in 1..Len(before) : [after[i] EXCEPT !.name = before[i].name] = before[i]

\* C24: once derived, the temperature, moisture and biome grids are changed by
\* no later step of the run (the river stage reads the very moisture grid of the
\* run), and the Names stage changes nothing but the name fields of the rivers
\* and the settlements.
C24_DerivedGridsFrozen ==
  [][/\ ClimateDerived => /\ run.temperature' = run.temperature
                          /\ run.moisture' = run.moisture
     /\ BiomesDerived => run.biomes' = run.biomes
     /\ run.pc = "rivers_run" => rMoisture = run.moisture
     /\ run.pc = "names" => /\ SameButName(run.settlements, run.settlements')
                            /\ SameButName(run.rivers, run.rivers')]_vars

\* A run returned rivers and settlements, all of them named, with its grids.
C24_Witness ==
  /\ run.pc = "done"
  /\ Len(run.rivers) >= 1
  /\ Len(run.settlements) >= 2
  /\ \A i \in 1..Len(run.rivers) : run.rivers[i].name # ""
  /\ \A i \in 1..Len(run.settlements) : run.settlements[i].name # ""
  /\ run.biomes # <<>> /\ run.temperature # <<>> /\ run.moisture # <<>>
(***************************************************************************)
(* Properties of the placement loop.                                       *)
(***************************************************************************)
\* The positions findSettlementLocation has to choose from when the
\* settlements given have been placed.
CandidatePositions(settlements) ==
  The({ {<<cs[i].x, cs[i].y>> : i \in 1..Len(cs)}
        : cs \in {Candidates(fn.width, fn.height, fn.suitability, settlements,
                             fn.minDistance)} })

\* C29: the loop makes at most 10 * settlementCount attempts; the set of
\* candidates never grows, an attempt that finds no candidate changes nothing,
\* so every attempt after it finds none, and the settlements placed are those
\* of the successful attempts, which are the first attempts in a row.
C29_PlacementLoop ==
  [][fn.pc = "place" =>
       /\ fn.attempt <= 10 * fn.settlementCount
       /\ Len(fn.a.settlements) = fn.attempt \/ CandidatePositions(fn.a.settlements) = {}
       /\ IF fn'.pc = "place_done"
          THEN \/ fn.attempt = 10 * fn.settlementCount
               \/ Len(fn.a.settlements) = fn.settlementCount
          ELSE /\ fn'.attempt = fn.attempt + 1
               /\ CandidatePositions(fn.a.settlements') \subseteq CandidatePositions(fn.a.settlements)
               /\ IF CandidatePositions(fn.a.settlements) = {}
                  THEN fn.a' = fn.a
                  ELSE /\ Len(fn.a.settlements') = Len(fn.a.settlements) + 1
                       /\ SubSeq(fn.a.settlements', 1, Len(fn.a.settlements)) = fn.a.settlements
                       /\ <<fn.a.settlements'[Len(fn.a.settlements')].x,
                            fn.a.settlements'[Len(fn.a.settlements')].y>>
                            \in CandidatePositions(fn.a.settlements)]_vars

\* The loop has ended after 10 * settlementCount attempts, the first of which
\* placed settlements and the later of which found no candidate.
C29_Witness ==
  /\ fn.pc = "place_done"
  /\ fn.attempt = 10 * fn.settlementCount
  /\ Len(fn.a.settlements) >= 2
  /\ Len(fn.a.settlements) < fn.settlementCount
  /\ fn.a.settlements
       = generateSettlements(fn.width, fn.height, fn.seed, fn.heightmap, fn.moisture,
                             fn.biomes, fn.rivers, fn.density)
(***************************************************************************)
(* Properties of SeededRandom.                                             *)
(***************************************************************************)
\* w is a 32-bit word: its value w[1] * 2^16 + w[2] lies in 0 .. 2^32 - 1.
IsWord32(w) == w[1] \in 0..(Half - 1) /\ w[2] \in 0..(Half - 1)

Settled == run.pc \in {"names", "done"}

\* settlementCount of the run's settlement stage
TargetCount ==
  settlementCount(run.config.width, run.config.height, run.biomes, run.config.settlementDensity)

\* (distance between a and b)^2 >= (sqrt(width * height / count) * 0.5)^2
FarEnough(a, b, width, height, count) ==
  4 * count * (((a.x - b.x) * (a.x - b.x)) + ((a.y - b.y) * (a.y - b.y))) >= width * height

\* C11: any two distinct settlements a settlement stage returned lie at least
\* the derived minimum distance sqrt(width * height / settlementCount) * 0.5
\* apart.
C11_SettlementsApart ==
  Settled =>
    \A i \in 1..Len(run.settlements) : \A j \in 1..Len(run.settlements) :
      i # j => FarEnough(run.settlements[i], run.settlements[j],
                         run.config.width, run.config.height, TargetCount)

\* A settlement stage returned two settlements at least, one of them next to
\* a sample point of the placement grid that lies closer to it than the
\* minimum distance.
C11_Witness ==
  /\ Settled
  /\ Len(run.settlements) >= 2
  /\ \E i \in 1..Len(run.settlements) : \E dx \in {-2, 2} :
       /\ run.settlements[i].x + dx >= 2
       /\ run.settlements[i].x + dx < run.config.width - 2
       /\ ~FarEnough(run.settlements[i],
                     [x |-> run.settlements[i].x + dx, y |-> run.settlements[i].y],
                     run.config.width, run.config.height, TargetCount)

\* C12: the settlement stage returns at least 3, at most 100 and at most
\* settlementCount settlements.
C12_CountInRange ==
  Settled =>
    /\ Len(run.settlements) >= 3
    /\ Len(run.settlements) <= 100
    /\ Len(run.settlements) <= TargetCount

\* C13: the settlements the settlement stage returned are in descending order
\* of population, and the Names stage keeps them in that order.
C13_SortedByPopulation ==
  Settled =>
    \A i \in 1..(Len(run.settlements) - 1) :
      run.settlements[i].population >= run.settlements[i + 1].population

\* A run has returned three settlements at least, named and of three different
\* populations.
C13_Witness ==
  /\ run.pc = "done"
  /\ Len(run.settlements) >= 3
  /\ run.settlements[1].population > run.settlements[2].population
  /\ run.settlements[2].population > run.settlements[3].population
  /\ run.settlements[1].name # run.settlements[2].name

\* step of findSettlementLocation for the run's map
PlacementStep == Max2(2, run.config.width \div 100)

\* The cell of settlement i of the run.
SettlementCell(i) == coordToIndex(run.settlements[i].x, run.settlements[i].y, run.config.width)

\* C28: no settlement stands on an ocean, mountain or snow cell: those cells
\* score 0, a settlement's cell scores 0.3 at least, and the ids the planner
\* tests are the classifier's; every settlement stands on a sample point of the
\* placement grid (x and y multiples of step, step <= x < width - step,
\* step <= y < height - step).
C28_SettlementCells ==
  /\ BIOME.OCEAN = BIOME_IDS.ocean
  /\ BIOME.MOUNTAIN = BIOME_IDS.mountain
  /\ BIOME.SNOW = BIOME_IDS.snow
  /\ Settled =>
       \E suitability \in {calculateSuitability(run.config.width, run.config.height,
                                                run.heightmap, run.moisture, run.biomes,
                                                run.rivers)} :
         /\ \A idx \in DOMAIN run.biomes :
              run.biomes[idx] \in {BIOME_IDS.ocean, BIOME_IDS.mountain, BIOME_IDS.snow}
                => suitability[idx] = 0
         /\ \A i \in 1..Len(run.settlements) :
              /\ run.biomes[SettlementCell(i)]
                   \notin {BIOME_IDS.ocean, BIOME_IDS.mountain, BIOME_IDS.snow}
              /\ suitability[SettlementCell(i)] >= (3 * Scale) \div 10
              /\ run.settlements[i].x % PlacementStep = 0
              /\ run.settlements[i].y % PlacementStep = 0
              /\ run.settlements[i].x >= PlacementStep
              /\ run.settlements[i].x < run.config.width - PlacementStep
              /\ run.settlements[i].y >= PlacementStep
              /\ run.settlements[i].y < run.config.height - PlacementStep

\* A settlement stage has placed settlements on a map whose placement grid
\* holds an ocean cell and a mountain or snow cell.
C28_Witness ==
  /\ Settled
  /\ Len(run.settlements) >= 2
  /\ \E x \in 1..run.config.width, y \in 1..run.config.height :
       /\ x % PlacementStep = 0 /\ x < run.config.width - PlacementStep
       /\ y % PlacementStep = 0 /\ y < run.config.height - PlacementStep
       /\ run.biomes[coordToIndex(x, y, run.config.width)] = BIOME_IDS.ocean
  /\ \E x \in 1..run.config.width, y \in 1..run.config.height :
       /\ x % PlacementStep = 0 /\ x < run.config.width - PlacementStep
       /\ y % PlacementStep = 0 /\ y < run.config.height - PlacementStep
       /\ run.biomes[coordToIndex(x, y, run.config.width)]
            \in {BIOME_IDS.mountain, BIOME_IDS.snow}
(***************************************************************************)
(* Properties of the map store.                                            *)
(***************************************************************************)
\* The calls of generate() in flight in store s.
InFlight(s) == {c \in DOMAIN s.calls : s.calls[c].pc = "awaiting"}

\* Every call of generate() made in store s has settled, and one was made.
AllSettled(s) == InFlight(s) = {} /\ \E c \in DOMAIN s.calls : s.calls[c].pc # "none"

\* C30: after every step of the store, isGenerating is true if a call of
\* generate() is in flight; if every call has settled, isGenerating is false and
\* generationProgress is null; a call that fails sets error and leaves mapData
\* as it was.
C30_FlagsFollowCalls ==
  [][fn.pc = "store" =>
       /\ InFlight(fn') # {} => fn'.isGenerating
       /\ AllSettled(fn') => ~fn'.isGenerating /\ fn'.generationProgress = "null"
       /\ \A c \in DOMAIN fn.calls :
            fn.calls[c].pc # "failed" /\ fn'.calls[c].pc = "failed"
              => fn'.error # "null" /\ fn'.mapData = fn.mapData]_vars

\* The parts of the claim on the settled store and on the failing call.
SettledStoreAndFailure ==
  [][fn.pc = "store" =>
       /\ AllSettled(fn') => ~fn'.isGenerating /\ fn'.generationProgress = "null"
       /\ \A c \in DOMAIN fn.calls :
            fn.calls[c].pc # "failed" /\ fn'.calls[c].pc = "failed"
              => fn'.error # "null" /\ fn'.mapData = fn.mapData]_vars
(***************************************************************************)
(* Properties of applyThermalErosion.                                      *)
(***************************************************************************)
\* The sum of the cells of a grid.
SumOf(grid) == Fold(LAMBDA a, idx : a + grid[idx], 0, ThermW * ThermH - 1, 0)

\* The 4-neighbours of the cell the scan stands on, and the lowest height
\* among them.
ThermNeighbours == {ThermIdx - 1, ThermIdx + 1, ThermIdx - fn.width, ThermIdx + fn.width}
LowestNeighbour == CHOOSE h \in {fn.result[n] : n \in ThermNeighbours} :
                     \A n \in ThermNeighbours : h <= fn.result[n]

\* What the cell the scan stands on has above its lowest neighbour beyond the
\* talus angle 0.5.
Excess == (fn.result[ThermIdx] - LowestNeighbour) - Scale \div 2

\* No cell of `result` is outside the range of the heightmap given.
WithinInputRange(result) ==
  \A idx \in DOMAIN result :
    /\ \E low \in DOMAIN fn.heightmap : fn.heightmap[low] <= result[idx]
    /\ \E high \in DOMAIN fn.heightmap : fn.heightmap[high] >= result[idx]

\* C22 (as the code has it): a visit of an interior cell that stands more than
\* the talus angle above its lowest 4-neighbour moves half of the excess to one
\* lowest neighbour, the cell and the neighbour each being stored rounded, so
\* that what the cell loses and what the neighbour gains differ by one unit of
\* the grid's resolution at most; every other visit changes nothing; no cell
\* leaves the [min, max] range of the heightmap given.
C22_TransferRounded ==
  [][(fn.pc = "thermal" /\ fn.iter < fn.iterations) =>
       /\ WithinInputRange(fn.result')
       /\ IF Excess > 0
          THEN \E n \in ThermNeighbours :
                 /\ fn.result[n] = LowestNeighbour
                 /\ fn.result'[ThermIdx] = fround2(2 * fn.result[ThermIdx] - Excess)
                 /\ fn.result'[n] = fround2(2 * fn.result[n] + Excess)
                 /\ \A idx \in DOMAIN fn.result :
                      idx \notin {ThermIdx, n} => fn.result'[idx] = fn.result[idx]
                 /\ Abs((fn.result[ThermIdx] - fn.result'[ThermIdx])
                        - (fn.result'[n] - fn.result[n])) <= 1
          ELSE fn.result' = fn.result]_vars

\* C22 (as the spec has it): what a cell loses is exactly what its neighbour
\* gains, so the sum of all heights is the same after any number of visits,
\* and no cell leaves the [min, max] range of the heightmap given.
C22_SumConserved ==
  fn.pc \in {"thermal", "thermal_done"} =>
    /\ SumOf(fn.result) = SumOf(fn.heightmap)
    /\ WithinInputRange(fn.result)

\* applyThermalErosion has returned a grid on which material slid in the
\* second iteration as well as in the first.
C22_Witness ==
  /\ fn.pc = "thermal_done"
  /\ fn.result # fn.heightmap
  /\ fn.result # applyThermalErosion(fn.heightmap, fn.width, fn.height, 1)
  /\ fn.result = applyThermalErosion(fn.heightmap, fn.width, fn.height, fn.iterations)
====
